---- MODULE Spec2Model ----
(***************************************************************************)
(* Model of the YKC charging-pile protocol parser (scripts/parse_ykc.py,   *)
(* scripts/parser_factory.py, scripts/frame_parsers.py).                   *)
(*                                                                         *)
(* A caller hands a hexadecimal string to YKCProtocolParser.parse(); the   *)
(* parser cleans it, converts it to bytes, splits the envelope, verifies   *)
(* the CRC, dispatches the body to the decoder registered for the frame    *)
(* type and returns a result dictionary.  Diagnostics are collected in     *)
(* the ParserContext owned by the parser object.                           *)
(*                                                                         *)
(* Conventions: a byte string is a sequence of naturals 0..255; a text     *)
(* string is a sequence of one-character strings; an optional dictionary   *)
(* key is a sequence that is empty when the key is absent and holds the    *)
(* value when it is present; a diagnostic message is modelled by its kind  *)
(* (the formatted numbers inside the message are not kept).                *)
(***************************************************************************)
EXTENDS Integers, Sequences, FiniteSets, TLC

----------------------------------------------------------------------------
(* Bounds of the explored input space.                                     *)

\* Largest number of bytes by which a generated frame is longer or shorter
\* than its length byte declares.
MaxSkew == 3

\* Largest number of body bytes a generated frame carries beyond the
\* decoder's declared minimum.
MaxExtra == 2

\* Largest body length handed to a decoder on its own (DecoderSpec).
MaxBody == 160

----------------------------------------------------------------------------
(* Python primitives.                                                      *)

Min(a, b) == IF a < b THEN a ELSE b

Max(a, b) == IF a > b THEN a ELSE b

\* s[a:b] of Python for 0 <= a: clamped to the end of s, never raises.
Slice(s, a, b) == SubSeq(s, a + 1, Min(b, Len(s)))

\* s[a:] of Python.
SliceFrom(s, a) == SubSeq(s, a + 1, Len(s))

\* s[i] of Python raises IndexError exactly when this is false.
InRange(s, i) == i < Len(s)

HexDigits == <<"0", "1", "2", "3", "4", "5", "6", "7",
               "8", "9", "A", "B", "C", "D", "E", "F">>

LowerHexDigits == <<"0", "1", "2", "3", "4", "5", "6", "7",
                    "8", "9", "a", "b", "c", "d", "e", "f">>

\* f"{b:02X}"
HexByte(b) == <<HexDigits[(b \div 16) + 1], HexDigits[(b % 16) + 1]>>

\* bytes.hex().upper(): two upper-case hex digits per byte.
RECURSIVE HexUpper(_)
HexUpper(bs) ==
    IF bs = <<>> THEN <<>> ELSE HexByte(Head(bs)) \o HexUpper(Tail(bs))

\* f"0x{b:02X}"
Hex02(b) == <<"0", "x">> \o HexByte(b)

\* f"0x{w:04X}" for a 16-bit value.
Hex04(w) == <<"0", "x">> \o HexByte(w \div 256) \o HexByte(w % 256)

RECURSIVE Reverse(_)
Reverse(s) == IF s = <<>> THEN <<>> ELSE Reverse(Tail(s)) \o <<Head(s)>>

RECURSIVE StripLeadingZeros(_)
StripLeadingZeros(s) ==
    IF s # <<>> /\ Head(s) = 0 THEN StripLeadingZeros(Tail(s)) ELSE s

\* int.from_bytes(bs, byteorder='little'), kept as its base-256 digits (most
\* significant first, no leading zero) because 4-, 5- and 8-byte fields do
\* not fit a machine integer of the checker.
IntFromBytesLittle(bs) == StripLeadingZeros(Reverse(bs))

\* int.from_bytes of a 2-byte string, as a number.
Int16Little(bs) == bs[1] + 256 * bs[2]

Int16Big(bs) == 256 * bs[1] + bs[2]

\* bytes.rstrip(b'\x00')
RECURSIVE RStripZero(_)
RStripZero(bs) ==
    IF bs # <<>> /\ bs[Len(bs)] = 0 THEN RStripZero(SubSeq(bs, 1, Len(bs) - 1))
    ELSE bs

RECURSIVE BitXor(_, _)
BitXor(a, b) ==
    IF a = 0 THEN b
    ELSE IF b = 0 THEN a
    ELSE (((a % 2) + (b % 2)) % 2) + 2 * BitXor(a \div 2, b \div 2)

RECURSIVE BitAnd(_, _)
BitAnd(a, b) ==
    IF a = 0 \/ b = 0 THEN 0
    ELSE ((a % 2) * (b % 2)) + 2 * BitAnd(a \div 2, b \div 2)

RECURSIVE Count(_, _)
\* list.count(x)
Count(s, x) ==
    IF s = <<>> THEN 0
    ELSE (IF Head(s) = x THEN 1 ELSE 0) + Count(Tail(s), x)

----------------------------------------------------------------------------
(* crc16.calculate_crc16: CRC-16 with the reflected polynomial 0xA001 and  *)
(* initial value 0xFFFF (the protocol's Modbus CRC).                       *)

RECURSIVE CrcShift(_, _)
CrcShift(crc, n) ==
    IF n = 0 THEN crc
    ELSE CrcShift(IF crc % 2 = 1 THEN BitXor(crc \div 2, 40961) ELSE crc \div 2,
                  n - 1)

CrcTable == [i \in 0..255 |-> CrcShift(i, 8)]

RECURSIVE CrcUpdate(_, _)
CrcUpdate(crc, bs) ==
    IF bs = <<>> THEN crc
    ELSE CrcUpdate(BitXor(crc \div 256, CrcTable[BitXor(crc % 256, Head(bs))]),
                   Tail(bs))

calculate_crc16(bs) == CrcUpdate(65535, bs)

----------------------------------------------------------------------------
(* ParserContext: the helper methods the decoders call.  Each returns the  *)
(* value and the warnings it appends to context.warnings.                  *)

\* bcd_to_str that renders the bytes last to first.
bcd_to_str_reversed(bcd_bytes) == HexUpper(Reverse(bcd_bytes))

\* ParserContext.bcd_to_str: two hex digits per byte.
bcd_to_str(bcd_bytes) == HexUpper(bcd_bytes)

\* ParserContext.ascii_to_str.  The strict decode of the stripped bytes
\* fails on any byte >= 0x80; the printable check runs on the bytes that
\* survive decode(errors='ignore').
ascii_to_str(ascii_bytes) ==
    LET stripped == RStripZero(ascii_bytes)
        decodable == \A i \in 1..Len(stripped) : stripped[i] < 128
        printable == \A i \in 1..Len(ascii_bytes) :
                        \/ ascii_bytes[i] >= 128
                        \/ (32 <= ascii_bytes[i] /\ ascii_bytes[i] < 127)
                        \/ ascii_bytes[i] = 0
    IN  IF ~decodable
        THEN [value |-> [kind |-> "hex", chars |-> <<>>, hex |-> HexUpper(ascii_bytes)],
              warnings |-> <<"ascii_decode_failed">>]
        ELSE [value |-> [kind |-> "text", chars |-> stripped, hex |-> <<>>],
              warnings |-> IF printable THEN <<>> ELSE <<"ascii_non_printable">>]

\* f"{n:0<w>d}": decimal digits of n, zero-padded to at least w characters.
RECURSIVE Dec(_, _)
Dec(n, w) ==
    IF n < 10 /\ w <= 1 THEN <<HexDigits[n + 1]>>
    ELSE Dec(n \div 10, w - 1) \o <<HexDigits[(n % 10) + 1]>>

\* parse_cp56time2a without the masks on the reserved high bits.
parse_cp56time2a_unmasked(time_bytes) ==
    IF Len(time_bytes) < 7 THEN <<"invalid time">>
    ELSE LET millisec == Int16Little(SubSeq(time_bytes, 1, 2))
             minute   == time_bytes[3]
             hour     == time_bytes[4]
             day      == time_bytes[5]
             month    == time_bytes[6]
             year     == 2000 + time_bytes[7]
             seconds  == millisec \div 1000
             millis   == millisec % 1000
         IN  Dec(year, 4) \o <<"-">> \o Dec(month, 2) \o <<"-">> \o Dec(day, 2)
             \o <<" ">> \o Dec(hour, 2) \o <<":">> \o Dec(minute, 2) \o <<":">>
             \o Dec(seconds, 2) \o <<".">> \o Dec(millis, 3)

\* ParserContext.parse_cp56time2a.
parse_cp56time2a(time_bytes) ==
    IF Len(time_bytes) < 7 THEN <<"invalid time">>
    ELSE LET millisec == Int16Little(SubSeq(time_bytes, 1, 2))
             minute   == time_bytes[3] % 64
             hour     == time_bytes[4] % 32
             day      == time_bytes[5] % 32
             month    == time_bytes[6] % 16
             year     == 2000 + (time_bytes[7] % 128)
             seconds  == millisec \div 1000
             millis   == millisec % 1000
         IN  Dec(year, 4) \o <<"-">> \o Dec(month, 2) \o <<"-">> \o Dec(day, 2)
             \o <<" ">> \o Dec(hour, 2) \o <<":">> \o Dec(minute, 2) \o <<":">>
             \o Dec(seconds, 2) \o <<".">> \o Dec(millis, 3)

\* fault_names of ParserContext.parse_fault_bits, in declaration order
\* (bit 0 first).
fault_names ==
    << "emergency_stop", "no_rectifier_module", "outlet_overtemperature",
       "ac_lightning_fault", "dc20_comm_lost", "fc08_comm_lost",
       "meter_comm_lost", "card_reader_comm_lost", "rc10_comm_lost",
       "fan_board_fault", "dc_fuse_fault", "hv_contactor_fault", "door_open" >>

\* fault & (1 << i) is non-zero.
BitSet(n, i) == (n \div (2 ^ i)) % 2 = 1

\* [name for i, name in enumerate(fault_names) if fault & (1 << i)], from
\* the i-th name (1-based) on.
RECURSIVE FaultsFrom(_, _)
FaultsFrom(n, i) ==
    IF i > Len(fault_names) THEN <<>>
    ELSE (IF BitSet(n, i - 1) THEN <<fault_names[i]>> ELSE <<>>)
         \o FaultsFrom(n, i + 1)

\* parse_fault_bits that stops at the first set bit.
parse_fault_bits_first_only(n) ==
    LET faults == FaultsFrom(n, 1)
    IN  IF faults # <<>> THEN <<Head(faults)>> ELSE <<"no_fault">>

\* ParserContext.parse_fault_bits.
parse_fault_bits(n) ==
    LET faults == FaultsFrom(n, 1)
    IN  IF faults # <<>> THEN faults ELSE <<"no_fault">>

----------------------------------------------------------------------------
(* Body decoders (frame_parsers.py).  A decoder is described by its        *)
(* expected_min_length and by the reads its parse() performs, in program   *)
(* order: <<kind, start, width>> with 0-based start.                       *)
(*   "idx"   body[start]            raises IndexError past the end         *)
(*   "bcd"   bcd_to_str(body[start:start+width])                           *)
(*   "hex"   body[start:start+width] rendered or kept as raw bytes         *)
(*   "int"   int.from_bytes(body[start:start+width], 'little')             *)
(*   "ascii" ascii_to_str(body[start:start+width])                         *)
(*   "time"  parse_cp56time2a(body[start:start+width])                     *)
(*   "rest"  body[start:].hex().upper()                                    *)
(* variant "counted": a count byte at body[7] followed by records of       *)
(* record_size bytes; variant "repeat": records of record_size bytes       *)
(* repeated from offset 7 while a whole record fits.                       *)

\* LoginParser: frame type 0x01, expected_min_length 28.
LoginParser ==
    [name |-> "LoginParser", expected_min_length |-> 28, variant |-> "fixed",
     record_size |-> 0, record |-> <<  >>,
     fields |->
       << <<"bcd", 0, 7>>, <<"idx", 7, 1>>, <<"idx", 8, 1>>, <<"idx", 9, 1>>,
          <<"ascii", 10, 8>>, <<"idx", 18, 1>>, <<"bcd", 19, 10>>, <<"idx", 29, 1>> >>]

\* LoginResponseParser: frame type 0x02, expected_min_length 8.
LoginResponseParser ==
    [name |-> "LoginResponseParser", expected_min_length |-> 8, variant |-> "fixed",
     record_size |-> 0, record |-> <<  >>,
     fields |->
       << <<"bcd", 0, 7>>, <<"idx", 7, 1>> >>]

\* HeartbeatParser: frame type 0x03, expected_min_length 7.
HeartbeatParser ==
    [name |-> "HeartbeatParser", expected_min_length |-> 7, variant |-> "fixed",
     record_size |-> 0, record |-> <<  >>,
     fields |->
       << <<"bcd", 0, 7>> >>]

\* HeartbeatResponseParser: frame type 0x04, expected_min_length 7.
HeartbeatResponseParser ==
    [name |-> "HeartbeatResponseParser", expected_min_length |-> 7, variant |-> "fixed",
     record_size |-> 0, record |-> <<  >>,
     fields |->
       << <<"bcd", 0, 7>> >>]

\* ReadRealtimeParser: frame type 0x12, expected_min_length 8.
ReadRealtimeParser ==
    [name |-> "ReadRealtimeParser", expected_min_length |-> 8, variant |-> "fixed",
     record_size |-> 0, record |-> <<  >>,
     fields |->
       << <<"bcd", 0, 7>>, <<"idx", 7, 1>> >>]

\* RealtimeDataParser: frame type 0x13, expected_min_length 58.
RealtimeDataParser ==
    [name |-> "RealtimeDataParser", expected_min_length |-> 58, variant |-> "fixed",
     record_size |-> 0, record |-> <<  >>,
     fields |->
       << <<"bcd", 0, 16>>, <<"bcd", 16, 7>>, <<"idx", 23, 1>>, <<"idx", 24, 1>>,
          <<"idx", 25, 1>>, <<"idx", 26, 1>>, <<"int", 27, 2>>, <<"int", 29, 2>>,
          <<"idx", 31, 1>>, <<"hex", 32, 8>>, <<"idx", 40, 1>>, <<"idx", 41, 1>>,
          <<"int", 42, 2>>, <<"int", 44, 2>>, <<"int", 46, 4>>, <<"int", 50, 4>>,
          <<"int", 54, 4>>, <<"int", 58, 2>> >>]

\* ChargingHandshakeParser: frame type 0x15, expected_min_length 65.
ChargingHandshakeParser ==
    [name |-> "ChargingHandshakeParser", expected_min_length |-> 65, variant |-> "fixed",
     record_size |-> 0, record |-> <<  >>,
     fields |->
       << <<"bcd", 0, 16>>, <<"bcd", 16, 7>>, <<"bcd", 23, 1>>, <<"hex", 24, 3>>,
          <<"idx", 26, 1>>, <<"idx", 27, 1>>, <<"int", 28, 2>>, <<"int", 30, 2>>,
          <<"ascii", 32, 4>>, <<"hex", 36, 4>>, <<"idx", 40, 1>>, <<"idx", 41, 1>>,
          <<"idx", 42, 1>>, <<"int", 43, 3>>, <<"idx", 46, 1>>, <<"ascii", 48, 17>>,
          <<"hex", 65, 8>> >>]

\* ParameterConfigParser: frame type 0x17, expected_min_length 41.
ParameterConfigParser ==
    [name |-> "ParameterConfigParser", expected_min_length |-> 41, variant |-> "fixed",
     record_size |-> 0, record |-> <<  >>,
     fields |->
       << <<"bcd", 0, 16>>, <<"bcd", 16, 7>>, <<"bcd", 23, 1>>, <<"int", 24, 2>>,
          <<"int", 26, 2>>, <<"int", 28, 2>>, <<"int", 30, 2>>, <<"idx", 32, 1>>,
          <<"int", 33, 2>>, <<"int", 35, 2>>, <<"int", 37, 2>>, <<"int", 39, 2>>,
          <<"int", 41, 2>>, <<"int", 43, 2>> >>]

\* ChargingEndParser: frame type 0x19, expected_min_length 35.
ChargingEndParser ==
    [name |-> "ChargingEndParser", expected_min_length |-> 35, variant |-> "fixed",
     record_size |-> 0, record |-> <<  >>,
     fields |->
       << <<"bcd", 0, 16>>, <<"bcd", 16, 7>>, <<"bcd", 23, 1>>, <<"idx", 24, 1>>,
          <<"int", 25, 2>>, <<"int", 27, 2>>, <<"idx", 29, 1>>, <<"idx", 30, 1>>,
          <<"int", 31, 2>>, <<"int", 33, 2>>, <<"int", 35, 4>> >>]

\* ErrorMessageParser: frame type 0x1B, expected_min_length 32.
ErrorMessageParser ==
    [name |-> "ErrorMessageParser", expected_min_length |-> 32, variant |-> "fixed",
     record_size |-> 0, record |-> <<  >>,
     fields |->
       << <<"bcd", 0, 16>>, <<"bcd", 16, 7>>, <<"bcd", 23, 1>>, <<"hex", 24, 8>> >>]

\* BMSStopParser: frame type 0x1D, expected_min_length 28.
BMSStopParser ==
    [name |-> "BMSStopParser", expected_min_length |-> 28, variant |-> "fixed",
     record_size |-> 0, record |-> <<  >>,
     fields |->
       << <<"bcd", 0, 16>>, <<"bcd", 16, 7>>, <<"bcd", 23, 1>>, <<"idx", 24, 1>>,
          <<"int", 25, 2>>, <<"idx", 27, 1>> >>]

\* ChargerStopParser: frame type 0x21, expected_min_length 28.
ChargerStopParser ==
    [name |-> "ChargerStopParser", expected_min_length |-> 28, variant |-> "fixed",
     record_size |-> 0, record |-> <<  >>,
     fields |->
       << <<"bcd", 0, 16>>, <<"bcd", 16, 7>>, <<"bcd", 23, 1>>, <<"idx", 24, 1>>,
          <<"int", 25, 2>>, <<"idx", 27, 1>> >>]

\* BMSDemandOutputParser: frame type 0x23, expected_min_length 40.
BMSDemandOutputParser ==
    [name |-> "BMSDemandOutputParser", expected_min_length |-> 40, variant |-> "fixed",
     record_size |-> 0, record |-> <<  >>,
     fields |->
       << <<"bcd", 0, 16>>, <<"bcd", 16, 7>>, <<"bcd", 23, 1>>, <<"int", 24, 2>>,
          <<"int", 26, 2>>, <<"idx", 28, 1>>, <<"int", 29, 2>>, <<"int", 31, 2>>,
          <<"int", 33, 2>>, <<"idx", 35, 1>>, <<"int", 36, 2>>, <<"int", 38, 2>>,
          <<"int", 40, 2>>, <<"int", 42, 2>> >>]

\* BMSInfoParser: frame type 0x25, expected_min_length 31.
BMSInfoParser ==
    [name |-> "BMSInfoParser", expected_min_length |-> 31, variant |-> "fixed",
     record_size |-> 0, record |-> <<  >>,
     fields |->
       << <<"bcd", 0, 16>>, <<"bcd", 16, 7>>, <<"bcd", 23, 1>>, <<"idx", 24, 1>>,
          <<"idx", 25, 1>>, <<"idx", 26, 1>>, <<"idx", 27, 1>>, <<"idx", 28, 1>>,
          <<"hex", 29, 2>> >>]

\* ChargingStartRequestParser: frame type 0x31, expected_min_length 21.
ChargingStartRequestParser ==
    [name |-> "ChargingStartRequestParser", expected_min_length |-> 21, variant |-> "fixed",
     record_size |-> 0, record |-> <<  >>,
     fields |->
       << <<"bcd", 0, 7>>, <<"bcd", 7, 1>>, <<"int", 8, 8>>, <<"int", 16, 4>>,
          <<"idx", 20, 1>> >>]

\* ChargingStartConfirmParser: frame type 0x32, expected_min_length 13.
ChargingStartConfirmParser ==
    [name |-> "ChargingStartConfirmParser", expected_min_length |-> 13, variant |-> "fixed",
     record_size |-> 0, record |-> <<  >>,
     fields |->
       << <<"bcd", 0, 7>>, <<"bcd", 7, 1>>, <<"idx", 8, 1>>, <<"idx", 9, 1>>,
          <<"int", 10, 4>> >>]

\* RemoteStartReplyParser: frame type 0x33, expected_min_length 15.
RemoteStartReplyParser ==
    [name |-> "RemoteStartReplyParser", expected_min_length |-> 15, variant |-> "fixed",
     record_size |-> 0, record |-> <<  >>,
     fields |->
       << <<"bcd", 0, 7>>, <<"bcd", 7, 1>>, <<"idx", 8, 1>>, <<"int", 9, 4>>,
          <<"idx", 13, 1>> >>]

\* RemoteStartCommandParser: frame type 0x34, expected_min_length 21.
RemoteStartCommandParser ==
    [name |-> "RemoteStartCommandParser", expected_min_length |-> 21, variant |-> "fixed",
     record_size |-> 0, record |-> <<  >>,
     fields |->
       << <<"bcd", 0, 7>>, <<"bcd", 7, 1>>, <<"int", 8, 8>>, <<"int", 16, 4>>,
          <<"idx", 20, 1>> >>]

\* RemoteStopReplyParser: frame type 0x35, expected_min_length 14.
RemoteStopReplyParser ==
    [name |-> "RemoteStopReplyParser", expected_min_length |-> 14, variant |-> "fixed",
     record_size |-> 0, record |-> <<  >>,
     fields |->
       << <<"bcd", 0, 7>>, <<"bcd", 7, 1>>, <<"idx", 8, 1>>, <<"int", 9, 4>>,
          <<"idx", 13, 1>> >>]

\* RemoteStopCommandParser: frame type 0x36, expected_min_length 12.
RemoteStopCommandParser ==
    [name |-> "RemoteStopCommandParser", expected_min_length |-> 12, variant |-> "fixed",
     record_size |-> 0, record |-> <<  >>,
     fields |->
       << <<"bcd", 0, 7>>, <<"bcd", 7, 1>>, <<"int", 8, 4>> >>]

\* TransactionRecordParser: frame type 0x3B, expected_min_length 132.
TransactionRecordParser ==
    [name |-> "TransactionRecordParser", expected_min_length |-> 132, variant |-> "fixed",
     record_size |-> 0, record |-> <<  >>,
     fields |->
       << <<"bcd", 0, 16>>, <<"bcd", 16, 7>>, <<"bcd", 23, 1>>, <<"time", 24, 7>>,
          <<"time", 31, 7>>, <<"int", 38, 4>>, <<"int", 42, 4>>, <<"int", 46, 4>>,
          <<"int", 50, 4>>, <<"int", 54, 4>>, <<"int", 58, 4>>, <<"int", 62, 4>>,
          <<"int", 66, 4>>, <<"int", 70, 4>>, <<"int", 74, 4>>, <<"int", 78, 4>>,
          <<"int", 82, 4>>, <<"int", 86, 4>>, <<"int", 90, 4>>, <<"int", 94, 4>>,
          <<"int", 98, 4>>, <<"int", 102, 5>>, <<"int", 107, 5>>, <<"int", 112, 4>>,
          <<"int", 116, 4>>, <<"int", 120, 4>>, <<"ascii", 124, 17>>, <<"idx", 141, 1>>,
          <<"time", 142, 7>>, <<"idx", 149, 1>>, <<"int", 150, 8>> >>]

\* TransactionConfirmParser: frame type 0x40, expected_min_length 17.
TransactionConfirmParser ==
    [name |-> "TransactionConfirmParser", expected_min_length |-> 17, variant |-> "fixed",
     record_size |-> 0, record |-> <<  >>,
     fields |->
       << <<"bcd", 0, 16>>, <<"idx", 16, 1>> >>]

\* BalanceUpdateResponseParser: frame type 0x41, expected_min_length 16.
BalanceUpdateResponseParser ==
    [name |-> "BalanceUpdateResponseParser", expected_min_length |-> 16, variant |-> "fixed",
     record_size |-> 0, record |-> <<  >>,
     fields |->
       << <<"bcd", 0, 7>>, <<"int", 7, 8>>, <<"idx", 15, 1>> >>]

\* BalanceUpdateRequestParser: frame type 0x42, expected_min_length 20.
BalanceUpdateRequestParser ==
    [name |-> "BalanceUpdateRequestParser", expected_min_length |-> 20, variant |-> "fixed",
     record_size |-> 0, record |-> <<  >>,
     fields |->
       << <<"bcd", 0, 7>>, <<"bcd", 7, 1>>, <<"int", 8, 8>>, <<"int", 16, 4>> >>]

\* OfflineCardSyncResponseParser: frame type 0x43, expected_min_length 9.
OfflineCardSyncResponseParser ==
    [name |-> "OfflineCardSyncResponseParser", expected_min_length |-> 9, variant |-> "fixed",
     record_size |-> 0, record |-> <<  >>,
     fields |->
       << <<"bcd", 0, 7>>, <<"idx", 7, 1>>, <<"idx", 8, 1>> >>]

\* OfflineCardSyncParser: frame type 0x44, expected_min_length 8.
OfflineCardSyncParser ==
    [name |-> "OfflineCardSyncParser", expected_min_length |-> 8, variant |-> "counted",
     record_size |-> 16, record |-> << <<"bcd", 0, 8>>, <<"int", 8, 8>> >>,
     fields |->
       << <<"bcd", 0, 7>>, <<"idx", 7, 1>> >>]

\* OfflineCardDeleteResponseParser: frame type 0x45, expected_min_length 7.
OfflineCardDeleteResponseParser ==
    [name |-> "OfflineCardDeleteResponseParser", expected_min_length |-> 7, variant |-> "repeat",
     record_size |-> 10, record |-> << <<"int", 0, 8>>, <<"idx", 8, 1>>, <<"idx", 9, 1>> >>,
     fields |->
       << <<"bcd", 0, 7>> >>]

\* OfflineCardDeleteParser: frame type 0x46, expected_min_length 8.
OfflineCardDeleteParser ==
    [name |-> "OfflineCardDeleteParser", expected_min_length |-> 8, variant |-> "counted",
     record_size |-> 8, record |-> << <<"int", 0, 8>> >>,
     fields |->
       << <<"bcd", 0, 7>>, <<"idx", 7, 1>> >>]

\* OfflineCardQueryResponseParser: frame type 0x47, expected_min_length 7.
OfflineCardQueryResponseParser ==
    [name |-> "OfflineCardQueryResponseParser", expected_min_length |-> 7, variant |-> "repeat",
     record_size |-> 9, record |-> << <<"int", 0, 8>>, <<"idx", 8, 1>> >>,
     fields |->
       << <<"bcd", 0, 7>> >>]

\* OfflineCardQueryParser: frame type 0x48, expected_min_length 8.
OfflineCardQueryParser ==
    [name |-> "OfflineCardQueryParser", expected_min_length |-> 8, variant |-> "counted",
     record_size |-> 8, record |-> << <<"int", 0, 8>> >>,
     fields |->
       << <<"bcd", 0, 7>>, <<"idx", 7, 1>> >>]

\* WorkParameterSetResponseParser: frame type 0x51, expected_min_length 8.
WorkParameterSetResponseParser ==
    [name |-> "WorkParameterSetResponseParser", expected_min_length |-> 8, variant |-> "fixed",
     record_size |-> 0, record |-> <<  >>,
     fields |->
       << <<"bcd", 0, 7>>, <<"idx", 7, 1>> >>]

\* WorkParameterSetParser: frame type 0x52, expected_min_length 18.
WorkParameterSetParser ==
    [name |-> "WorkParameterSetParser", expected_min_length |-> 18, variant |-> "fixed",
     record_size |-> 0, record |-> <<  >>,
     fields |->
       << <<"bcd", 0, 7>>, <<"idx", 7, 1>>, <<"ascii", 8, 10>> >>]

\* TimeSyncResponseParser: frame type 0x55, expected_min_length 8.
TimeSyncResponseParser ==
    [name |-> "TimeSyncResponseParser", expected_min_length |-> 8, variant |-> "fixed",
     record_size |-> 0, record |-> <<  >>,
     fields |->
       << <<"bcd", 0, 7>>, <<"idx", 7, 1>> >>]

\* TimeSyncParser: frame type 0x56, expected_min_length 14.
TimeSyncParser ==
    [name |-> "TimeSyncParser", expected_min_length |-> 14, variant |-> "fixed",
     record_size |-> 0, record |-> <<  >>,
     fields |->
       << <<"bcd", 0, 7>>, <<"time", 7, 7>> >>]

\* BillingModelResponseParser: frame type 0x57, expected_min_length 8.
BillingModelResponseParser ==
    [name |-> "BillingModelResponseParser", expected_min_length |-> 8, variant |-> "fixed",
     record_size |-> 0, record |-> <<  >>,
     fields |->
       << <<"bcd", 0, 7>>, <<"idx", 7, 1>> >>]

\* BillingModelSetParser: frame type 0x58, expected_min_length 29.
BillingModelSetParser ==
    [name |-> "BillingModelSetParser", expected_min_length |-> 29, variant |-> "fixed",
     record_size |-> 0, record |-> <<  >>,
     fields |->
       << <<"bcd", 0, 7>>, <<"rest", 7, 0>> >>]

\* ParkingLockStatusParser: frame type 0x61, expected_min_length 9.
ParkingLockStatusParser ==
    [name |-> "ParkingLockStatusParser", expected_min_length |-> 9, variant |-> "fixed",
     record_size |-> 0, record |-> <<  >>,
     fields |->
       << <<"bcd", 0, 7>>, <<"idx", 7, 1>>, <<"idx", 8, 1>> >>]

\* ParkingLockControlParser: frame type 0x62, expected_min_length 8.
ParkingLockControlParser ==
    [name |-> "ParkingLockControlParser", expected_min_length |-> 8, variant |-> "fixed",
     record_size |-> 0, record |-> <<  >>,
     fields |->
       << <<"bcd", 0, 7>>, <<"idx", 7, 1>> >>]

\* ParkingLockResponseParser: frame type 0x63, expected_min_length 8.
ParkingLockResponseParser ==
    [name |-> "ParkingLockResponseParser", expected_min_length |-> 8, variant |-> "fixed",
     record_size |-> 0, record |-> <<  >>,
     fields |->
       << <<"bcd", 0, 7>>, <<"idx", 7, 1>> >>]

\* RemoteRebootResponseParser: frame type 0x91, expected_min_length 8.
RemoteRebootResponseParser ==
    [name |-> "RemoteRebootResponseParser", expected_min_length |-> 8, variant |-> "fixed",
     record_size |-> 0, record |-> <<  >>,
     fields |->
       << <<"bcd", 0, 7>>, <<"idx", 7, 1>> >>]

\* RemoteRebootParser: frame type 0x92, expected_min_length 7.
RemoteRebootParser ==
    [name |-> "RemoteRebootParser", expected_min_length |-> 7, variant |-> "fixed",
     record_size |-> 0, record |-> <<  >>,
     fields |->
       << <<"bcd", 0, 7>> >>]

\* RemoteUpdateResponseParser: frame type 0x93, expected_min_length 8.
RemoteUpdateResponseParser ==
    [name |-> "RemoteUpdateResponseParser", expected_min_length |-> 8, variant |-> "fixed",
     record_size |-> 0, record |-> <<  >>,
     fields |->
       << <<"bcd", 0, 7>>, <<"idx", 7, 1>> >>]

\* RemoteUpdateParser: frame type 0x94, expected_min_length 17.
RemoteUpdateParser ==
    [name |-> "RemoteUpdateParser", expected_min_length |-> 17, variant |-> "fixed",
     record_size |-> 0, record |-> <<  >>,
     fields |->
       << <<"bcd", 0, 7>>, <<"rest", 7, 0>> >>]

\* ParallelChargingRequestParser: frame type 0xA1, expected_min_length 8.
ParallelChargingRequestParser ==
    [name |-> "ParallelChargingRequestParser", expected_min_length |-> 8, variant |-> "fixed",
     record_size |-> 0, record |-> <<  >>,
     fields |->
       << <<"bcd", 0, 7>>, <<"idx", 7, 1>> >>]

\* ParallelChargingConfirmParser: frame type 0xA2, expected_min_length 8.
ParallelChargingConfirmParser ==
    [name |-> "ParallelChargingConfirmParser", expected_min_length |-> 8, variant |-> "fixed",
     record_size |-> 0, record |-> <<  >>,
     fields |->
       << <<"bcd", 0, 7>>, <<"idx", 7, 1>> >>]

\* ParallelChargingReplyParser: frame type 0xA3, expected_min_length 8.
ParallelChargingReplyParser ==
    [name |-> "ParallelChargingReplyParser", expected_min_length |-> 8, variant |-> "fixed",
     record_size |-> 0, record |-> <<  >>,
     fields |->
       << <<"bcd", 0, 7>>, <<"idx", 7, 1>> >>]

\* ParallelChargingCommandParser: frame type 0xA4, expected_min_length 8.
ParallelChargingCommandParser ==
    [name |-> "ParallelChargingCommandParser", expected_min_length |-> 8, variant |-> "fixed",
     record_size |-> 0, record |-> <<  >>,
     fields |->
       << <<"bcd", 0, 7>>, <<"idx", 7, 1>> >>]

\* DefaultParser: used for every frame type without a registered decoder.
DefaultParser ==
    [name |-> "DefaultParser", expected_min_length |-> 0, variant |-> "default",
     record_size |-> 0, record |-> << >>, fields |-> << >>]

ParserCodes ==
    {1, 2, 3, 4, 18, 19, 21, 23, 25, 27, 29, 33, 35, 37, 49, 50, 51, 52, 53, 54,
     59, 64, 65, 66, 67, 68, 69, 70, 71, 72, 81, 82, 85, 86, 87, 88, 97, 98, 99,
     145, 146, 147, 148, 161, 162, 163, 164}

\* FrameParserFactory.get_parser: _parsers.get(frame_type, DefaultParser).
get_parser(code) ==
    CASE code = 1 -> LoginParser
      [] code = 2 -> LoginResponseParser
      [] code = 3 -> HeartbeatParser
      [] code = 4 -> HeartbeatResponseParser
      [] code = 18 -> ReadRealtimeParser
      [] code = 19 -> RealtimeDataParser
      [] code = 21 -> ChargingHandshakeParser
      [] code = 23 -> ParameterConfigParser
      [] code = 25 -> ChargingEndParser
      [] code = 27 -> ErrorMessageParser
      [] code = 29 -> BMSStopParser
      [] code = 33 -> ChargerStopParser
      [] code = 35 -> BMSDemandOutputParser
      [] code = 37 -> BMSInfoParser
      [] code = 49 -> ChargingStartRequestParser
      [] code = 50 -> ChargingStartConfirmParser
      [] code = 51 -> RemoteStartReplyParser
      [] code = 52 -> RemoteStartCommandParser
      [] code = 53 -> RemoteStopReplyParser
      [] code = 54 -> RemoteStopCommandParser
      [] code = 59 -> TransactionRecordParser
      [] code = 64 -> TransactionConfirmParser
      [] code = 65 -> BalanceUpdateResponseParser
      [] code = 66 -> BalanceUpdateRequestParser
      [] code = 67 -> OfflineCardSyncResponseParser
      [] code = 68 -> OfflineCardSyncParser
      [] code = 69 -> OfflineCardDeleteResponseParser
      [] code = 70 -> OfflineCardDeleteParser
      [] code = 71 -> OfflineCardQueryResponseParser
      [] code = 72 -> OfflineCardQueryParser
      [] code = 81 -> WorkParameterSetResponseParser
      [] code = 82 -> WorkParameterSetParser
      [] code = 85 -> TimeSyncResponseParser
      [] code = 86 -> TimeSyncParser
      [] code = 87 -> BillingModelResponseParser
      [] code = 88 -> BillingModelSetParser
      [] code = 97 -> ParkingLockStatusParser
      [] code = 98 -> ParkingLockControlParser
      [] code = 99 -> ParkingLockResponseParser
      [] code = 145 -> RemoteRebootResponseParser
      [] code = 146 -> RemoteRebootParser
      [] code = 147 -> RemoteUpdateResponseParser
      [] code = 148 -> RemoteUpdateParser
      [] code = 161 -> ParallelChargingRequestParser
      [] code = 162 -> ParallelChargingConfirmParser
      [] code = 163 -> ParallelChargingReplyParser
      [] code = 164 -> ParallelChargingCommandParser
      [] OTHER -> DefaultParser

\* YKCProtocolParser.FRAME_TYPES: the codes that have a display name.
FRAME_TYPES ==
    {1, 2, 3, 4, 5, 6, 9, 10, 18, 19, 21, 23, 25, 27, 29, 33, 35, 37, 49, 50, 51,
     52, 53, 54, 59, 64, 65, 66, 67, 68, 69, 70, 71, 72, 81, 82, 85, 86, 87, 88,
     97, 98, 99, 145, 146, 147, 148, 161, 162, 163, 164, 240, 241}

\* FRAME_TYPES.get(frame_type, "unknown frame type"): the display name.  A
\* registered decoder's class name stands for the Chinese display string.
FrameTypeName(code) ==
    IF code \notin FRAME_TYPES THEN "unknown"
    ELSE IF code \in ParserCodes THEN get_parser(code).name
    ELSE IF code = 5 THEN "BillingModelVerifyRequest"
    ELSE IF code = 6 THEN "BillingModelVerifyResponse"
    ELSE IF code = 9 THEN "BillingModelRequest"
    ELSE IF code = 10 THEN "BillingModelRequestResponse"
    ELSE IF code = 240 THEN "QRCodePrefixSet"
    ELSE "QRCodePrefixSetResponse"

\* The empty dictionary {} a decoder returns when validate_length fails.
EmptyDict ==
    [none |-> FALSE, raw |-> <<>>, note |-> FALSE, fields |-> <<>>, records |-> <<>>]

\* body_data = None, set when the decoder raised.
NoneValue ==
    [none |-> TRUE, raw |-> <<>>, note |-> FALSE, fields |-> <<>>, records |-> <<>>]

\* One read of a decoder: its value, the warnings it appends, and whether
\* it raises IndexError.
ReadField(body, f, base) ==
    LET kind == f[1]
        a == base + f[2]
        b == a + f[3]
    IN  IF kind = "idx"
        THEN IF InRange(body, a)
             THEN [raised |-> FALSE, value |-> body[a + 1], warnings |-> <<>>]
             ELSE [raised |-> TRUE, value |-> 0, warnings |-> <<>>]
        ELSE IF kind = "ascii"
        THEN LET r == ascii_to_str(Slice(body, a, b))
             IN  [raised |-> FALSE, value |-> r.value, warnings |-> r.warnings]
        ELSE [raised |-> FALSE, warnings |-> <<>>,
              value |-> IF kind = "bcd" THEN bcd_to_str(Slice(body, a, b))
                        ELSE IF kind = "int" THEN IntFromBytesLittle(Slice(body, a, b))
                        ELSE IF kind = "time" THEN parse_cp56time2a(Slice(body, a, b))
                        ELSE IF kind = "rest" THEN HexUpper(SliceFrom(body, a))
                        ELSE HexUpper(Slice(body, a, b))]

\* The reads of one layout in program order, stopping at the first raise.
RECURSIVE ReadFields(_, _, _, _)
ReadFields(body, fs, base, acc) ==
    IF fs = <<>> \/ acc.raised THEN acc
    ELSE LET r == ReadField(body, Head(fs), base)
         IN  ReadFields(body, Tail(fs), base,
                        [raised |-> r.raised,
                         values |-> IF r.raised THEN acc.values
                                    ELSE Append(acc.values, r.value),
                         warnings |-> acc.warnings \o r.warnings])

NoReads == [raised |-> FALSE, values |-> <<>>, warnings |-> <<>>]

\* The records of a "counted" or "repeat" decoder: n records of the
\* decoder's record layout, the k-th at offset first + k * record_size.
RECURSIVE ReadRecords(_, _, _, _, _)
ReadRecords(body, parser, first, n, acc) ==
    IF n = 0 \/ acc.raised THEN acc
    ELSE LET r == ReadFields(body, parser.record, first, NoReads)
         IN  ReadRecords(body, parser, first + parser.record_size, n - 1,
                         [raised |-> r.raised,
                          records |-> IF r.raised THEN acc.records
                                      ELSE Append(acc.records, r.values),
                          warnings |-> acc.warnings \o r.warnings])

\* FrameParser.validate_length.
validate_length(parser, body) == Len(body) >= parser.expected_min_length

\* RecordCount that trusts the declared count of a count-prefixed body.
RecordCountDeclared(parser, body) ==
    IF parser.variant = "counted"
    THEN body[8]
    ELSE IF parser.variant = "repeat"
    THEN IF Len(body) < 7 THEN 0 ELSE (Len(body) - 7) \div parser.record_size
    ELSE 0

\* Number of records a variable-length decoder iterates over.
RecordCount(parser, body) ==
    IF parser.variant = "counted"
    THEN Min(body[8], (Len(body) - 8) \div parser.record_size)
    ELSE IF parser.variant = "repeat"
    THEN IF Len(body) < 7 THEN 0 ELSE (Len(body) - 7) \div parser.record_size
    ELSE 0

\* parser.parse(body): what the decoder returns or that it raised, and the
\* entries it appends to context.errors and context.warnings.
ParseBody(parser, body) ==
    IF parser.variant = "default"
    THEN [raised |-> FALSE, errors |-> <<>>, warnings |-> <<>>,
          data |-> [none |-> FALSE, raw |-> <<HexUpper(body)>>, note |-> TRUE,
                    fields |-> <<>>, records |-> <<>>]]
    ELSE IF ~validate_length(parser, body)
    THEN [raised |-> FALSE, errors |-> <<"body_too_short">>, warnings |-> <<>>,
          data |-> EmptyDict]
    ELSE LET fixed == ReadFields(body, parser.fields, 0, NoReads)
             short == /\ parser.variant = "counted"
                      /\ Len(body) < 8 + body[8] * parser.record_size
             recs  == IF fixed.raised
                      THEN [raised |-> TRUE, records |-> <<>>, warnings |-> <<>>]
                      ELSE ReadRecords(body, parser,
                                       IF parser.variant = "counted" THEN 8 ELSE 7,
                                       RecordCount(parser, body),
                                       [raised |-> FALSE, records |-> <<>>,
                                        warnings |-> <<>>])
         IN  [raised |-> recs.raised,
              errors |-> IF ~fixed.raised /\ short
                         THEN <<"offline_card_length">> ELSE <<>>,
              warnings |-> fixed.warnings \o recs.warnings,
              data |-> IF recs.raised THEN NoneValue
                       ELSE [none |-> FALSE, raw |-> <<>>, note |-> FALSE,
                             fields |-> fixed.values, records |-> recs.records]]

----------------------------------------------------------------------------
(* YKCProtocolParser (parse_ykc.py).                                       *)

\* A result dictionary with no key set.
NoResult ==
    [code |-> 0, msg |-> <<>>, data_none |-> FALSE,
     start_flag |-> <<>>, data_length |-> <<>>, sequence_number |-> <<>>,
     encrypt_flag |-> <<>>, is_encrypted |-> <<>>, frame_type |-> <<>>,
     frame_type_name |-> <<>>, body_length |-> <<>>, body_hex |-> <<>>,
     crc16_received |-> <<>>, crc16_calculated |-> <<>>, crc16_valid |-> <<>>,
     body_data |-> <<>>, errors |-> <<>>, warnings |-> <<>>]

\* YKCProtocolParser._error_response: {"code": 500, "msg": msg, "data": None}.
error_response(msg) == [NoResult EXCEPT !.code = 500, !.msg = <<msg>>, !.data_none = TRUE]

\* body_end = body_start + body_len with body_start = 6, body_len = data_len - 4.
BodyEnd(data) == 6 + (data[2] - 4)

\* BodyOf with the last two bytes of a short frame kept back for the
\* checksum.
BodyOfWithoutTail(data) ==
    IF Len(data) < BodyEnd(data) THEN Slice(data, 6, Len(data) - 2)
    ELSE Slice(data, 6, BodyEnd(data))

\* The body slice: data[6:] when the frame ends before body_end, else
\* data[6:body_end].
BodyOf(data) ==
    IF Len(data) < BodyEnd(data) THEN SliceFrom(data, 6)
    ELSE Slice(data, 6, BodyEnd(data))

\* CrcBytes taken from the end of the frame: data[-2:].
CrcBytesTrailing(data) == SubSeq(data, Len(data) - 1, Len(data))

\* crc_bytes = data[body_end:body_end + 2]
CrcBytes(data) == Slice(data, BodyEnd(data), BodyEnd(data) + 2)

\* CrcData that starts at the start marker: data[0:body_end].
CrcDataFromStart(data) == Slice(data, 0, BodyEnd(data))

\* crc_data = data[2:body_end]
CrcData(data) == Slice(data, 2, BodyEnd(data))

\* if len(data) >= body_end + 2: the checksum is read and verified.
CrcReadable(data) == Len(data) >= BodyEnd(data) + 2

\* LengthMismatch that only notices a frame that is too short.
LengthMismatchShortOnly(data) == Len(data) < 1 + 1 + data[2] + 2

\* LengthMismatch that only notices a frame that is too long.
LengthMismatchLongOnly(data) == Len(data) > 1 + 1 + data[2] + 2

\* if len(data) != expected_total_len, with
\* expected_total_len = 1 + 1 + data_len + 2.
LengthMismatch(data) == Len(data) # 1 + 1 + data[2] + 2

\* CrcErrors that also counts a differing checksum as an error.
CrcErrorsStrict(data) ==
    IF ~CrcReadable(data) THEN <<"crc_unreadable">>
    ELSE IF calculate_crc16(CrcData(data)) # Int16Big(CrcBytes(data))
    THEN <<"crc_mismatch">> ELSE <<>>

\* The error of step 7: the checksum cannot be read.  A checksum that is
\* read and differs is no error.
CrcErrors(data) == IF CrcReadable(data) THEN <<>> ELSE <<"crc_unreadable">>

\* The warning of step 7: the checksum is read and differs from the
\* computed one.
CrcWarnings(data) ==
    IF /\ CrcReadable(data)
       /\ calculate_crc16(CrcData(data)) # Int16Big(CrcBytes(data))
    THEN <<"crc_mismatch">> ELSE <<>>

\* ParseBodyGuarded without the try/except: a raise of the decoder escapes
\* _parse_structure.
ParseBodyUnguarded(r) ==
    [propagated |-> r.raised, errors |-> r.errors, warnings |-> r.warnings,
     body_data |-> IF r.raised THEN <<>> ELSE <<r.data>>]

\* Step 8 of _parse_structure applied to the outcome r of
\* parser.parse(body): the call sits inside try/except Exception; a raise
\* becomes one error entry and body_data = None.
ParseBodyGuarded(r) ==
    IF r.raised
    THEN [propagated |-> FALSE, errors |-> r.errors \o <<"body_parse_failed">>,
          warnings |-> r.warnings, body_data |-> <<NoneValue>>]
    ELSE [propagated |-> FALSE, errors |-> r.errors, warnings |-> r.warnings,
          body_data |-> <<r.data>>]

\* result['body_data'] = ... : the decoder's outcome d joined to the
\* result, errors and warnings collected by steps 1 to 7.
WithBodyData(res, errors, warnings, d) ==
    [propagated |-> d.propagated,
     result |-> [res EXCEPT !.body_data = d.body_data],
     errors |-> errors \o d.errors,
     warnings |-> warnings \o d.warnings]

\* if body: the decoder is skipped for an empty body.
DecoderRuns(body) == body # <<>>

\* YKCProtocolParser._parse_structure on a context that parse() has reset:
\* the result dictionary built so far, the entries appended to
\* context.errors and context.warnings, and whether an exception escapes.
parse_structure(data) ==
    LET start_flag == data[1]
        data_len   == data[2]
        e1 == IF start_flag # 104 THEN <<"start_flag_error">> ELSE <<>>
        e2 == e1 \o (IF LengthMismatch(data)
                     THEN <<"length_mismatch">> ELSE <<>>)
        r2 == [NoResult EXCEPT !.start_flag = <<Hex02(start_flag)>>,
                               !.data_length = <<data_len>>]
    IN  IF Len(data) < 4
        THEN [propagated |-> FALSE, result |-> r2,
              errors |-> e2 \o <<"no_sequence_number">>, warnings |-> <<>>]
        ELSE
        LET r3 == [r2 EXCEPT !.sequence_number = <<Int16Little(SubSeq(data, 3, 4))>>]
        IN  IF Len(data) < 5
            THEN [propagated |-> FALSE, result |-> r3,
                  errors |-> e2 \o <<"no_encrypt_flag">>, warnings |-> <<>>]
            ELSE
            LET r4 == [r3 EXCEPT !.encrypt_flag = <<Hex02(data[5])>>,
                                 !.is_encrypted = <<data[5] = 1>>]
            IN  IF Len(data) < 6
                THEN [propagated |-> FALSE, result |-> r4,
                      errors |-> e2 \o <<"no_frame_type">>, warnings |-> <<>>]
                ELSE
                LET frame_type == data[6]
                    r5 == [r4 EXCEPT !.frame_type = <<Hex02(frame_type)>>,
                                     !.frame_type_name = <<FrameTypeName(frame_type)>>]
                    w5 == IF frame_type \notin FRAME_TYPES
                          THEN <<"unknown_frame_type">> ELSE <<>>
                    body_len == data_len - 4
                IN  IF body_len < 0
                    THEN [propagated |-> FALSE, result |-> r5,
                          errors |-> e2 \o <<"data_length_field_error">>,
                          warnings |-> w5]
                    ELSE
                    LET body == BodyOf(data)
                        e6 == e2 \o (IF Len(data) < BodyEnd(data)
                                     THEN <<"body_incomplete">> ELSE <<>>)
                        r6 == [r5 EXCEPT !.body_length = <<Len(body)>>,
                                         !.body_hex = <<HexUpper(body)>>]
                        crc_received   == Int16Big(CrcBytes(data))
                        crc_calculated == calculate_crc16(CrcData(data))
                        r7 == IF CrcReadable(data)
                              THEN [r6 EXCEPT
                                      !.crc16_received = <<Hex04(crc_received)>>,
                                      !.crc16_calculated = <<Hex04(crc_calculated)>>,
                                      !.crc16_valid = <<crc_calculated = crc_received>>]
                              ELSE [r6 EXCEPT !.crc16_valid = <<FALSE>>]
                        w7 == w5 \o CrcWarnings(data)
                        e7 == e6 \o CrcErrors(data)
                    IN  IF ~DecoderRuns(body)
                        THEN [propagated |-> FALSE, result |-> r7,
                              errors |-> e7, warnings |-> w7]
                        ELSE WithBodyData(r7, e7, w7,
                                 ParseBodyGuarded(
                                     ParseBody(get_parser(frame_type), body)))

\* The characters str.strip() removes and bytes.fromhex() skips.
Whitespace == {" ", "\n", "\t", "\r"}

RECURSIVE RemoveChars(_, _)
\* hex_str.replace(" ", "").replace("\n", "")
RemoveChars(s, cs) ==
    IF s = <<>> THEN <<>>
    ELSE (IF Head(s) \in cs THEN <<>> ELSE <<Head(s)>>) \o RemoveChars(Tail(s), cs)

RECURSIVE LStrip(_)
LStrip(s) == IF s # <<>> /\ Head(s) \in Whitespace THEN LStrip(Tail(s)) ELSE s

RECURSIVE RStrip(_)
RStrip(s) ==
    IF s # <<>> /\ s[Len(s)] \in Whitespace THEN RStrip(SubSeq(s, 1, Len(s) - 1))
    ELSE s

\* str.strip()
Strip(s) == RStrip(LStrip(s))

\* The cleaning of parse(): remove blanks and newlines, then strip.
CleanHex(hex_str) == Strip(RemoveChars(hex_str, {" ", "\n"}))

\* Value of one hex digit of either case, -1 for any other character.
HexVal(c) ==
    IF \E i \in 1..16 : HexDigits[i] = c
    THEN (CHOOSE i \in 1..16 : HexDigits[i] = c) - 1
    ELSE IF \E i \in 1..16 : LowerHexDigits[i] = c
    THEN (CHOOSE i \in 1..16 : LowerHexDigits[i] = c) - 1
    ELSE -1

\* FromHex that drops a last digit without a partner instead of raising.
RECURSIVE FromHexLenient(_)
FromHexLenient(s) ==
    LET t == LStrip(s)
    IN  IF Len(t) < 2 THEN [ok |-> TRUE, bytes |-> <<>>]
        ELSE IF HexVal(t[1]) < 0 \/ HexVal(t[2]) < 0
        THEN [ok |-> FALSE, bytes |-> <<>>]
        ELSE LET rest == FromHexLenient(SubSeq(t, 3, Len(t)))
             IN  [ok |-> rest.ok,
                  bytes |-> <<16 * HexVal(t[1]) + HexVal(t[2])>> \o rest.bytes]

\* bytes.fromhex: whitespace is skipped between byte pairs; anything else
\* that is not a pair of hex digits raises ValueError (ok = FALSE).
RECURSIVE FromHex(_)
FromHex(s) ==
    LET t == LStrip(s)
    IN  IF t = <<>> THEN [ok |-> TRUE, bytes |-> <<>>]
        ELSE IF Len(t) < 2 \/ HexVal(t[1]) < 0 \/ HexVal(t[2]) < 0
        THEN [ok |-> FALSE, bytes |-> <<>>]
        ELSE LET rest == FromHex(SubSeq(t, 3, Len(t)))
             IN  [ok |-> rest.ok,
                  bytes |-> <<16 * HexVal(t[1]) + HexVal(t[2])>> \o rest.bytes]

\* FailureMsg built from the last three errors: errors[-3:].
FailureMsgLastThree(errors) ==
    <<"parse_failed">> \o SubSeq(errors, Max(1, Len(errors) - 2), Len(errors))

\* "parse failed: " + "; ".join(errors[:3])
FailureMsg(errors) == <<"parse_failed">> \o SubSeq(errors, 1, Min(3, Len(errors)))

\* FinalResult in which a warning forces the failure status as well.
FinalResultWarningsFail(res, errors, warnings) ==
    LET r1 == IF errors # <<>> \/ warnings # <<>>
              THEN [res EXCEPT !.code = 500, !.msg = FailureMsg(errors),
                               !.errors = <<errors>>]
              ELSE [res EXCEPT !.code = 200, !.msg = <<"ok">>]
    IN  IF warnings # <<>> THEN [r1 EXCEPT !.warnings = <<warnings>>] ELSE r1

\* The end of parse(): status and message from context.errors, the errors
\* and warnings keys only when the lists are not empty.
FinalResult(res, errors, warnings) ==
    LET r1 == IF errors # <<>>
              THEN [res EXCEPT !.code = 500, !.msg = FailureMsg(errors),
                               !.errors = <<errors>>]
              ELSE [res EXCEPT !.code = 200, !.msg = <<"ok">>]
    IN  IF warnings # <<>> THEN [r1 EXCEPT !.warnings = <<warnings>>] ELSE r1

\* Lines 174-191 of parse(): the outcome s of _parse_structure turned into
\* the returned dictionary; an exception that escaped gives the error
\* response.
Returned(s) ==
    IF s.propagated
    THEN [result |-> error_response("parse_exception"),
          errors |-> s.errors, warnings |-> s.warnings]
    ELSE [result |-> FinalResult(s.result, s.errors, s.warnings),
          errors |-> s.errors, warnings |-> s.warnings]

\* The early returns of parse(): an error response and nothing recorded.
Rejected(msg) == [result |-> error_response(msg), errors |-> <<>>, warnings |-> <<>>]

\* ParseBytes that gives up on a wrong start marker instead of recording
\* the error and going on.
ParseBytesStrictStart(h) ==
    IF ~h.ok THEN Rejected("hex_format_error")
    ELSE IF Len(h.bytes) < 8 THEN Rejected("frame_too_short")
    ELSE IF h.bytes[1] # 104 THEN Rejected("start_flag_error")
    ELSE Returned(parse_structure(h.bytes))

\* ParseBytes that lets frames of 6 and 7 bytes through to the envelope
\* parser.
ParseBytesMinSix(h) ==
    IF ~h.ok THEN Rejected("hex_format_error")
    ELSE IF Len(h.bytes) < 6 THEN Rejected("frame_too_short")
    ELSE Returned(parse_structure(h.bytes))

\* ParseBytes whose length check only keeps the two bytes that
\* _parse_structure indexes.
ParseBytesMinTwo(h) ==
    IF ~h.ok THEN Rejected("hex_format_error")
    ELSE IF Len(h.bytes) < 2 THEN Rejected("frame_too_short")
    ELSE Returned(parse_structure(h.bytes))

\* bytes.fromhex(cleaned) and the length check that follows it.
ParseBytes(h) ==
    IF ~h.ok THEN Rejected("hex_format_error")
    ELSE IF Len(h.bytes) < 8 THEN Rejected("frame_too_short")
    ELSE Returned(parse_structure(h.bytes))

\* YKCProtocolParser.parse: the returned dictionary and the lists left in
\* self.context after the call.
parse(hex_str) ==
    IF Len(CleanHex(hex_str)) % 2 # 0 THEN Rejected("odd_length")
    ELSE ParseBytes(FromHex(CleanHex(hex_str)))
----------------------------------------------------------------------------
(* The frames and hex strings handed to the parser.                        *)

\* Frame type codes of the generated frames: login (0x01), heartbeat
\* (0x03), a named type without decoder (0x05), offline-card sync (0x44),
\* offline-card delete response (0x45) and an unknown code (0x99).
FrameTypeSamples == {1, 3, 5, 68, 69, 153}

\* Byte values a generated body is filled with: NUL, a control character,
\* the letter A, and a byte outside 7-bit ASCII.
FillSamples == {0, 1, 65, 255}

\* Start markers: the sentinel 0x68 and a wrong one.
StartSamples == {104, 0}

\* Body lengths tried for a frame type, around the decoder's minimum.
BodyLens(code) ==
    LET p == get_parser(code)
        m == p.expected_min_length
    IN  {n \in ({0, 1, m - 5, m - 1, m + p.record_size} \cup (m..(m + MaxExtra))) : n >= 0}

\* Length bytes tried for a frame type: two values below 4 and the values
\* that declare the body lengths above.
DataLens(code) == {0, 3} \cup {n + 4 : n \in BodyLens(code)}

FillBytes(n, v) == [i \in 1..n |-> v]

\* A frame with the given start marker, length byte, type and body, a
\* matching or a wrong checksum (sent high byte first), cut short by -skew
\* bytes or followed by skew extra bytes.
MakeFrameWithBody(start, data_len, frame_type, body, crc_ok, skew) ==
    LET env  == <<1, 0, 0, frame_type>>
        good == calculate_crc16(env \o body)
        crc  == IF crc_ok THEN good ELSE (good + 1) % 65536
        full == <<start, data_len>> \o env \o body \o <<crc \div 256, crc % 256>>
    IN  IF skew < 0 THEN SubSeq(full, 1, Max(Len(full) + skew, 0))
        ELSE full \o FillBytes(skew, 238)

\* The same with a body of data_len - 4 bytes that all have the value fill.
MakeFrame(start, data_len, frame_type, fill, crc_ok, skew) ==
    MakeFrameWithBody(start, data_len, frame_type,
                      FillBytes(Max(data_len - 4, 0), fill), crc_ok, skew)

\* Pile codes of 7 different bytes.
PileCodes == {<<50, 1, 2, 0, 0, 0, 1>>, <<18, 52, 86, 120, 154, 188, 222>>}

\* Heartbeat frames (type 0x03) that carry those pile codes.
HeartbeatFrames ==
    {MakeFrameWithBody(104, 11, 3, body, crc_ok, 0) :
        body \in PileCodes, crc_ok \in BOOLEAN}

\* The pairs <<frame type, length byte>> of the generated frames.
TypeAndLen == UNION {{<<t, n>> : n \in DataLens(t)} : t \in FrameTypeSamples}

Frames ==
    {MakeFrame(start, tl[2], tl[1], fill, crc_ok, skew) :
        start \in StartSamples, tl \in TypeAndLen, fill \in FillSamples,
        crc_ok \in BOOLEAN, skew \in (-MaxSkew)..MaxSkew}
    \cup HeartbeatFrames

\* bytes.hex(): lower-case digits.
RECURSIVE HexLower(_)
HexLower(bs) ==
    IF bs = <<>> THEN <<>>
    ELSE <<LowerHexDigits[(Head(bs) \div 16) + 1], LowerHexDigits[(Head(bs) % 16) + 1]>>
         \o HexLower(Tail(bs))

\* Upper-case digits with sep after every byte.
RECURSIVE HexSeparated(_, _)
HexSeparated(bs, sep) ==
    IF bs = <<>> THEN <<>>
    ELSE HexByte(Head(bs)) \o <<sep>> \o HexSeparated(Tail(bs), sep)

\* The frames that are also handed over in other spellings: well-formed
\* heartbeat frames.
SpelledFrames ==
    {MakeFrame(104, 11, 3, fill, TRUE, 0) : fill \in FillSamples}

\* The upper-case digits of bs in two lines, the first of k bytes, with
\* the line ending eol between them.
HexTwoLines(bs, k, eol) ==
    HexUpper(SubSeq(bs, 1, k)) \o eol \o HexUpper(SubSeq(bs, k + 1, Len(bs)))

\* The other spellings of a frame: lower case, blank- newline- and
\* tab-separated, a blank inside a byte, two lines with a Windows or a
\* Unix line ending, one digit short (also in two lines), and with a
\* character that is no digit.
Spellings(f) ==
    {HexLower(f), HexSeparated(f, " "), HexSeparated(f, "\n"), HexSeparated(f, "\t"),
     <<HexUpper(f)[1], " ">> \o Tail(HexUpper(f)),
     HexTwoLines(f, 8, <<"\r", "\n">>), HexTwoLines(f, 8, <<"\n">>),
     SubSeq(HexUpper(f), 1, 2 * Len(f) - 1),
     SubSeq(HexTwoLines(f, 8, <<"\r", "\n">>), 1, 2 * Len(f) + 1),
     <<"G">> \o Tail(HexUpper(f))}

\* The hex strings handed to parse().
Inputs == {HexUpper(f) : f \in Frames} \cup UNION {Spellings(f) : f \in SpelledFrames}

\* The bodies handed to a decoder on its own.
Bodies == {FillBytes(n, fill) : n \in 0..MaxBody, fill \in FillSamples}

----------------------------------------------------------------------------
(* State.                                                                  *)

VARIABLES
    pc,                \* "called": parse(hex_str) is about to run; "returned"
    hex_str,           \* the argument of the call
    context_errors,    \* self.context.errors
    context_warnings,  \* self.context.warnings
    result,            \* the dictionary parse() returned
    dec_pc,            \* "called" / "returned" for a decoder run on its own
    dec_type,          \* frame type code of that decoder
    dec_body,          \* its body argument
    dec_out,           \* what its parse(body) produced
    heap,              \* the list objects created so far, by identity
    context,           \* self.context: the lists its attributes refer to
    calls,             \* the parse() calls made on the parser object
    parsers,           \* FrameParserFactory._parsers
    looked_up,         \* the last get_parser call: its code and its decoder
    ascii_pc,          \* "called" / "returned" for ascii_to_str on its own
    ascii_bytes,       \* its argument
    ascii_out,         \* its return value and the warnings it appended
    time_pc,           \* "called" / "returned" for parse_cp56time2a on its own
    time_bytes,        \* its argument
    time_out,          \* the string it returned
    fault_pc,          \* "called" / "returned" for parse_fault_bits on its own
    fault,             \* its argument
    fault_out          \* the list of labels it returned

\* The variables of one parse() call taken as a whole.
parse_vars == <<pc, hex_str, context_errors, context_warnings, result>>

\* The variables of a decoder run on its own.
decoder_vars == <<dec_pc, dec_type, dec_body, dec_out>>

\* The variables of the calls made step by step on one parser object.
object_vars == <<heap, context, calls>>

\* The variables of the decoder registry.
registry_vars == <<parsers, looked_up>>

\* The variables of ascii_to_str run on its own.
ascii_vars == <<ascii_pc, ascii_bytes, ascii_out>>

\* The variables of parse_cp56time2a and parse_fault_bits run on their own.
helper_vars == <<time_pc, time_bytes, time_out, fault_pc, fault, fault_out>>

vars == <<pc, hex_str, context_errors, context_warnings, result,
          dec_pc, dec_type, dec_body, dec_out, heap, context, calls,
          parsers, looked_up, ascii_pc, ascii_bytes, ascii_out,
          time_pc, time_bytes, time_out, fault_pc, fault, fault_out>>

NoOutput == [raised |-> FALSE, errors |-> <<>>, warnings |-> <<>>, data |-> EmptyDict]

\* No parse() call is made as a whole.
ParseIdle ==
    /\ pc = "idle"
    /\ hex_str = <<>>
    /\ context_errors = <<>>
    /\ context_warnings = <<>>
    /\ result = NoResult

\* No decoder is run on its own.
DecoderIdle ==
    /\ dec_pc = "idle"
    /\ dec_type = 0
    /\ dec_body = <<>>
    /\ dec_out = NoOutput

\* ParserContext.__init__ of a new YKCProtocolParser: two new empty lists;
\* no call made yet.
ObjectInit ==
    /\ heap = << <<>>, <<>> >>
    /\ context = [errors |-> 1, warnings |-> 2]
    /\ calls = <<>>

\* The class attribute _parsers as the class statement leaves it.
RegistryInit ==
    /\ parsers = [code \in ParserCodes |-> get_parser(code)]
    /\ looked_up = [code |-> 0, parser |-> DefaultParser]

\* ascii_to_str is not run on its own.
AsciiIdle ==
    /\ ascii_pc = "idle"
    /\ ascii_bytes = <<>>
    /\ ascii_out = [value |-> [kind |-> "text", chars |-> <<>>, hex |-> <<>>],
                    warnings |-> <<>>]

\* parse_cp56time2a is not run on its own.
TimeIdle ==
    /\ time_pc = "idle"
    /\ time_bytes = <<>>
    /\ time_out = <<>>

\* parse_fault_bits is not run on its own.
FaultIdle ==
    /\ fault_pc = "idle"
    /\ fault = 0
    /\ fault_out = <<>>

\* A freshly constructed YKCProtocolParser (empty ParserContext) and the
\* hex string of the call that is about to be made.
Init ==
    /\ pc = "called"
    /\ hex_str \in Inputs
    /\ context_errors = <<>>
    /\ context_warnings = <<>>
    /\ result = NoResult
    /\ DecoderIdle
    /\ ObjectInit
    /\ RegistryInit
    /\ AsciiIdle
    /\ TimeIdle
    /\ FaultIdle

\* YKCProtocolParser.parse(hex_str), the whole call.
Parse ==
    /\ pc = "called"
    /\ LET r == parse(hex_str)
       IN  /\ result' = r.result
           /\ context_errors' = r.errors
           /\ context_warnings' = r.warnings
    /\ pc' = "returned"
    /\ UNCHANGED <<hex_str, decoder_vars, object_vars, registry_vars, ascii_vars, helper_vars>>

Next == Parse

Spec == Init /\ [][Next]_vars

\* A decoder of the registry constructed on a fresh context and the body
\* it is about to parse.
DecoderInit ==
    /\ ParseIdle
    /\ dec_pc = "called"
    /\ dec_type \in ParserCodes
    /\ dec_body \in Bodies
    /\ dec_out = NoOutput
    /\ ObjectInit
    /\ RegistryInit
    /\ AsciiIdle
    /\ TimeIdle
    /\ FaultIdle

\* FrameParser.parse(body) of the decoder registered for dec_type.
Decode ==
    /\ dec_pc = "called"
    /\ dec_out' = ParseBody(get_parser(dec_type), dec_body)
    /\ dec_pc' = "returned"
    /\ UNCHANGED <<parse_vars, dec_type, dec_body, object_vars, registry_vars,
                   ascii_vars, helper_vars>>

DecoderNext == Decode

DecoderSpec == DecoderInit /\ [][DecoderNext]_vars

\* The frame of the call: the bytes the cleaned hex string converts to.
Data == FromHex(CleanHex(hex_str)).bytes

\* The call reached _parse_structure.
Structural ==
    /\ pc = "returned"
    /\ Len(CleanHex(hex_str)) % 2 = 0
    /\ FromHex(CleanHex(hex_str)).ok
    /\ Len(Data) >= 8


----------------------------------------------------------------------------
(* parse() calls on one YKCProtocolParser object, statement by statement.  *)
(* The object owns one ParserContext; its attributes errors and warnings   *)
(* refer to list objects, which are told apart by their position in heap.  *)

\* Largest number of parse() calls made on the parser object.
MaxCalls == 3

\* Largest number of parse() calls that are in progress at the same time
\* when the object is shared by threads.
MaxThreads == 2

\* The hex strings of those calls, all for frames with a 1-byte body: a
\* frame without diagnostics (type 0x05, default decoder), the same with a
\* wrong checksum (a warning), a heartbeat frame with a wrong start marker
\* (two errors: the marker and the short body), a frame of unknown type (a
\* warning), and a string with an odd number of digits.
CallInputs ==
    {HexUpper(MakeFrame(104, 5, 5, 1, TRUE, 0)),
     HexUpper(MakeFrame(104, 5, 5, 1, FALSE, 0)),
     HexUpper(MakeFrame(0, 5, 3, 1, TRUE, 0)),
     HexUpper(MakeFrame(104, 5, 153, 1, TRUE, 0)),
     <<"6", "8", "0">>}

\* The tags appended to one list, as entries of a program-order trace.
Diagnostics(list, tags) == [i \in 1..Len(tags) |-> [list |-> list, tag |-> tags[i]]]

\* What the decoder call of step 8 appends: the decoder's warnings and
\* errors, then the error of the except clause.
DecoderDiagnostics(d) ==
    Diagnostics("warnings", d.warnings) \o Diagnostics("errors", d.errors)

\* The appends _parse_structure makes to self.context.errors and
\* self.context.warnings for a frame of at least 8 bytes, in program order.
AppendsOf(data) ==
    Diagnostics("errors", IF data[1] # 104 THEN <<"start_flag_error">> ELSE <<>>)
    \o Diagnostics("errors", IF LengthMismatch(data) THEN <<"length_mismatch">> ELSE <<>>)
    \o Diagnostics("warnings", IF data[6] \notin FRAME_TYPES
                               THEN <<"unknown_frame_type">> ELSE <<>>)
    \o (IF data[2] - 4 < 0
        THEN Diagnostics("errors", <<"data_length_field_error">>)
        ELSE Diagnostics("errors", IF Len(data) < BodyEnd(data)
                                   THEN <<"body_incomplete">> ELSE <<>>)
             \o Diagnostics("warnings", CrcWarnings(data))
             \o Diagnostics("errors", CrcErrors(data))
             \o (IF DecoderRuns(BodyOf(data))
                 THEN DecoderDiagnostics(
                          ParseBodyGuarded(
                              ParseBody(get_parser(data[6]), BodyOf(data))))
                 ELSE <<>>))

\* A call that has been entered with argument hex_str and has not run a
\* statement yet.
NewCall(h) ==
    [hex |-> h, pc |-> "reset_errors", todo |-> <<>>, code |-> 0,
     errors |-> 0, warnings |-> 0]

\* The calls that have been entered and have not returned.
InProgress == {c \in 1..Len(calls) : calls[c].pc # "returned"}

\* A caller enters parse(h) after the calls before it have returned.
CallAfterReturn(h) ==
    /\ Len(calls) < MaxCalls
    /\ InProgress = {}
    /\ calls' = Append(calls, NewCall(h))
    /\ UNCHANGED <<heap, context, parse_vars, decoder_vars, registry_vars, ascii_vars, helper_vars>>

\* A thread enters parse(h) while other calls may be in progress.
CallFromThread(h) ==
    /\ Len(calls) < MaxCalls
    /\ Cardinality(InProgress) < MaxThreads
    /\ calls' = Append(calls, NewCall(h))
    /\ UNCHANGED <<heap, context, parse_vars, decoder_vars, registry_vars, ascii_vars, helper_vars>>

\* ResetErrors that empties the list in place: self.context.errors.clear().
ResetErrorsInPlace(c) ==
    /\ c <= Len(calls)
    /\ calls[c].pc = "reset_errors"
    /\ heap' = [heap EXCEPT ![context.errors] = <<>>]
    /\ calls' = [calls EXCEPT ![c].pc = "reset_warnings"]
    /\ UNCHANGED <<context, parse_vars, decoder_vars, registry_vars, ascii_vars, helper_vars>>

\* self.context.errors = []: the attribute is bound to a new list.
ResetErrors(c) ==
    /\ c <= Len(calls)
    /\ calls[c].pc = "reset_errors"
    /\ heap' = Append(heap, <<>>)
    /\ context' = [context EXCEPT !.errors = Len(heap) + 1]
    /\ calls' = [calls EXCEPT ![c].pc = "reset_warnings"]
    /\ UNCHANGED <<parse_vars, decoder_vars, registry_vars, ascii_vars, helper_vars>>

\* What the call does with its argument before it touches the context
\* again: cleaning, the odd-length check, bytes.fromhex and the check for
\* 8 bytes.  A rejected argument returns the error response.
Converted(call, h) ==
    IF Len(CleanHex(call.hex)) % 2 # 0 \/ ~h.ok \/ Len(h.bytes) < 8
    THEN [call EXCEPT !.pc = "returned", !.code = 500]
    ELSE [call EXCEPT !.pc = IF AppendsOf(h.bytes) = <<>> THEN "status" ELSE "structure",
                      !.todo = AppendsOf(h.bytes)]

\* self.context.warnings = [], followed by the conversion of the argument.
ResetWarnings(c) ==
    /\ c <= Len(calls)
    /\ calls[c].pc = "reset_warnings"
    /\ heap' = Append(heap, <<>>)
    /\ context' = [context EXCEPT !.warnings = Len(heap) + 1]
    /\ calls' = [calls EXCEPT ![c] = Converted(calls[c], FromHex(CleanHex(calls[c].hex)))]
    /\ UNCHANGED <<parse_vars, decoder_vars, registry_vars, ascii_vars, helper_vars>>

\* One self.context.errors.append(...) or self.context.warnings.append(...)
\* of _parse_structure or of the decoder: the entry goes to the list the
\* attribute refers to at that moment.
AppendDiagnostic(c) ==
    /\ c <= Len(calls)
    /\ calls[c].pc = "structure"
    /\ heap' = [heap EXCEPT ![context[Head(calls[c].todo).list]] =
                                Append(@, Head(calls[c].todo).tag)]
    /\ calls' = [calls EXCEPT ![c].todo = Tail(@),
                              ![c].pc = IF Tail(calls[c].todo) = <<>>
                                        THEN "status" ELSE "structure"]
    /\ UNCHANGED <<context, parse_vars, decoder_vars, registry_vars, ascii_vars, helper_vars>>

\* if self.context.errors: code 500 and result["errors"] =
\* self.context.errors (the list itself), else code 200.
SetStatus(c) ==
    /\ c <= Len(calls)
    /\ calls[c].pc = "status"
    /\ calls' = [calls EXCEPT
                   ![c].code = IF heap[context.errors] # <<>> THEN 500 ELSE 200,
                   ![c].errors = IF heap[context.errors] # <<>>
                                 THEN context.errors ELSE 0,
                   ![c].pc = "warnings_key"]
    /\ UNCHANGED <<heap, context, parse_vars, decoder_vars, registry_vars, ascii_vars, helper_vars>>

\* if self.context.warnings: result["warnings"] = self.context.warnings;
\* return result.
SetWarnings(c) ==
    /\ c <= Len(calls)
    /\ calls[c].pc = "warnings_key"
    /\ calls' = [calls EXCEPT
                   ![c].warnings = IF heap[context.warnings] # <<>>
                                   THEN context.warnings ELSE 0,
                   ![c].pc = "returned"]
    /\ UNCHANGED <<heap, context, parse_vars, decoder_vars, registry_vars, ascii_vars, helper_vars>>

\* A new YKCProtocolParser on which no call has been made.
CallsInit ==
    /\ ParseIdle
    /\ DecoderIdle
    /\ ObjectInit
    /\ RegistryInit
    /\ AsciiIdle
    /\ TimeIdle
    /\ FaultIdle

CallsNext ==
    \/ \E h \in CallInputs : CallAfterReturn(h)
    \/ \E c \in 1..MaxCalls : ResetErrors(c)
    \/ \E c \in 1..MaxCalls : ResetWarnings(c)
    \/ \E c \in 1..MaxCalls : AppendDiagnostic(c)
    \/ \E c \in 1..MaxCalls : SetStatus(c)
    \/ \E c \in 1..MaxCalls : SetWarnings(c)

\* One caller: every call returns before the next one is made.
CallsSpec == CallsInit /\ [][CallsNext]_vars

ThreadsNext ==
    \/ \E h \in CallInputs : CallFromThread(h)
    \/ \E c \in 1..MaxCalls : ResetErrors(c)
    \/ \E c \in 1..MaxCalls : ResetWarnings(c)
    \/ \E c \in 1..MaxCalls : AppendDiagnostic(c)
    \/ \E c \in 1..MaxCalls : SetStatus(c)
    \/ \E c \in 1..MaxCalls : SetWarnings(c)

\* The parser object shared by threads: the statements of the calls in
\* progress interleave.
ThreadsSpec == CallsInit /\ [][ThreadsNext]_vars

\* The errors and warnings lists of the result call c returned, as they
\* are now, and its status.
ReturnedErrors(c) == IF calls[c].errors = 0 THEN <<>> ELSE heap[calls[c].errors]

ReturnedWarnings(c) == IF calls[c].warnings = 0 THEN <<>> ELSE heap[calls[c].warnings]

\* The result of call c holds the diagnostics and the status of its own
\* frame: those of parse() run on its argument alone.
OwnDiagnostics(c, alone) ==
    /\ ReturnedErrors(c) = alone.errors
    /\ ReturnedWarnings(c) = alone.warnings
    /\ calls[c].code = alone.result.code

----------------------------------------------------------------------------
(* The decoder registry FrameParserFactory._parsers (parser_factory.py).   *)

\* Frame type codes passed to register_parser and get_parser: login,
\* heartbeat, QR-code prefix (no decoder registered) and an unknown code.
RegistryCodes == {1, 3, 240, 153}

\* Decoder classes passed to register_parser.
RegistryClasses == {LoginParser, HeartbeatParser, DefaultParser}

\* cls._parsers.get(frame_type, DefaultParser)
Registered(registry, code) ==
    IF code \in DOMAIN registry THEN registry[code] ELSE DefaultParser

\* FrameParserFactory.register_parser(frame_type, parser_class):
\* cls._parsers[frame_type] = parser_class.
register_parser(code, parser_class) ==
    /\ parsers' = [c \in DOMAIN parsers \cup {code} |->
                      IF c = code THEN parser_class ELSE parsers[c]]
    /\ UNCHANGED <<looked_up, parse_vars, decoder_vars, object_vars, ascii_vars, helper_vars>>

\* FrameParserFactory.get_parser(frame_type, context) on the registry as it
\* is now.
GetParser(code) ==
    /\ looked_up' = [code |-> code, parser |-> Registered(parsers, code)]
    /\ UNCHANGED <<parsers, parse_vars, decoder_vars, object_vars, ascii_vars, helper_vars>>

\* The factory class after import: the registry of the class statement.
RegistryStart ==
    /\ ParseIdle
    /\ DecoderIdle
    /\ ObjectInit
    /\ RegistryInit
    /\ AsciiIdle
    /\ TimeIdle
    /\ FaultIdle

RegistryNext ==
    \/ \E code \in RegistryCodes, parser_class \in RegistryClasses :
          register_parser(code, parser_class)
    \/ \E code \in RegistryCodes : GetParser(code)

RegistrySpec == RegistryStart /\ [][RegistryNext]_vars

----------------------------------------------------------------------------
(* ParserContext.ascii_to_str run on its own.                              *)

\* Largest length of a text field handed to ascii_to_str.
MaxField == 3

\* Byte values of those fields: the padding byte, a control character, a
\* blank, the letters A and ~ (the last printable one), DEL, and two bytes
\* outside 7-bit ASCII.
AsciiSamples == {0, 10, 32, 65, 126, 127, 128, 255}

RECURSIVE FieldsOfLength(_)
\* The fields of n sample bytes.
FieldsOfLength(n) ==
    IF n = 0 THEN {<<>>}
    ELSE {Append(f, b) : f \in FieldsOfLength(n - 1), b \in AsciiSamples}

AsciiFields == UNION {FieldsOfLength(n) : n \in 0..MaxField}

\* A fresh ParserContext and the field ascii_to_str is about to be called
\* with.
AsciiInit ==
    /\ ParseIdle
    /\ DecoderIdle
    /\ ObjectInit
    /\ RegistryInit
    /\ ascii_pc = "called"
    /\ ascii_bytes \in AsciiFields
    /\ ascii_out = [value |-> [kind |-> "text", chars |-> <<>>, hex |-> <<>>],
                    warnings |-> <<>>]
    /\ TimeIdle
    /\ FaultIdle

\* context.ascii_to_str(ascii_bytes)
AsciiToStr ==
    /\ ascii_pc = "called"
    /\ ascii_out' = ascii_to_str(ascii_bytes)
    /\ ascii_pc' = "returned"
    /\ UNCHANGED <<ascii_bytes, parse_vars, decoder_vars, object_vars, registry_vars,
                   helper_vars>>

AsciiNext == AsciiToStr

AsciiSpec == AsciiInit /\ [][AsciiNext]_vars
----------------------------------------------------------------------------
(* parse_cp56time2a on its own: the seven bytes are drawn at the start and *)
(* the function is applied to them once.                                    *)

\* The bytes packing 2024-03-15 14:30:00.500: 500 = 0x01F4 little-endian,
\* then minute, hour, day, month and year - 2000.
ExampleTimeBytes == <<244, 1, 30, 14, 15, 3, 24>>

\* Sample values of each of the seven bytes: zero, the example's value, the
\* same value with reserved high bits set, the largest value of the field
\* and 255.
TimeByteSamples ==
    << {0, 244, 255}, {0, 1, 255},
       {0, 30, 30 + 64, 59, 255},
       {0, 14, 14 + 32, 23, 255},
       {0, 15, 15 + 128, 31},
       {0, 3, 3 + 16, 12, 255},
       {0, 24, 24 + 128, 255} >>

TimeInputs ==
    { <<b0, b1, b2, b3, b4, b5, b6>> :
        b0 \in TimeByteSamples[1], b1 \in TimeByteSamples[2],
        b2 \in TimeByteSamples[3], b3 \in TimeByteSamples[4],
        b4 \in TimeByteSamples[5], b5 \in TimeByteSamples[6],
        b6 \in TimeByteSamples[7] }
    \cup { <<>>, <<244, 1, 30, 14, 15, 3>> }

TimeInit ==
    /\ ParseIdle
    /\ DecoderIdle
    /\ ObjectInit
    /\ RegistryInit
    /\ AsciiIdle
    /\ FaultIdle
    /\ time_pc = "called"
    /\ time_bytes \in TimeInputs
    /\ time_out = <<>>

\* context.parse_cp56time2a(time_bytes)
ParseTime ==
    /\ time_pc = "called"
    /\ time_out' = parse_cp56time2a(time_bytes)
    /\ time_pc' = "returned"
    /\ UNCHANGED <<time_bytes, fault_pc, fault, fault_out, parse_vars,
                   decoder_vars, object_vars, registry_vars, ascii_vars>>

TimeNext == ParseTime

TimeSpec == TimeInit /\ [][TimeNext]_vars

----------------------------------------------------------------------------
(* parse_fault_bits on its own: the argument is any value of the two-byte  *)
(* little-endian field read by RealtimeDataParser.                          *)

FaultValues == 0..65535

FaultInit ==
    /\ ParseIdle
    /\ DecoderIdle
    /\ ObjectInit
    /\ RegistryInit
    /\ AsciiIdle
    /\ TimeIdle
    /\ fault_pc = "called"
    /\ fault \in FaultValues
    /\ fault_out = <<>>

\* context.parse_fault_bits(fault)
ParseFaultBits ==
    /\ fault_pc = "called"
    /\ fault_out' = parse_fault_bits(fault)
    /\ fault_pc' = "returned"
    /\ UNCHANGED <<fault, time_pc, time_bytes, time_out, parse_vars,
                   decoder_vars, object_vars, registry_vars, ascii_vars>>

FaultNext == ParseFaultBits

FaultSpec == FaultInit /\ [][FaultNext]_vars

\* The length byte declares a body: data_len - 4 >= 0.
HasBody == Structural /\ Data[2] >= 4

\* The body bytes the frame holds for the declared body: indices 6 up to
\* the declared end or the end of the frame.
FrameBody == SubSeq(Data, 7, Min(Len(Data), 2 + Data[2]))

\* The checksum is read and compared in this call.
CrcVerified == HasBody /\ Len(Data) >= Data[2] + 4

\* The envelope fields of the result are all present.
EnvelopePresent ==
    /\ result.start_flag # <<>>
    /\ result.data_length # <<>>
    /\ result.sequence_number # <<>>
    /\ result.encrypt_flag # <<>>
    /\ result.is_encrypted # <<>>
    /\ result.frame_type # <<>>
    /\ result.frame_type_name # <<>>

----------------------------------------------------------------------------
(* Claims.                                                                 *)

\* C1 (as stated): for every input, the status is 500 exactly when the
\* errors list of the result is non-empty, and 200 otherwise.
C1_StatusIffErrorsEveryInput ==
    pc = "returned" =>
        /\ (result.code = 500) <=> (result.errors # <<>>)
        /\ result.code \in {200, 500}

\* C1 (amended): for every input that reaches the envelope parser (even
\* digit count, valid hex, at least 8 bytes) the status is 500 exactly
\* when an error was recorded, the errors list of the result then being
\* the recorded errors, and 200 otherwise; an input rejected before that
\* gets status 500 with only a message and no errors list.
C1_StatusIffErrors ==
    /\ Structural =>
          /\ (result.code = 500) <=> (context_errors # <<>>)
          /\ (result.code = 500) <=> (result.errors = <<context_errors>>)
          /\ (result.code # 500) => (result.code = 200 /\ result.errors = <<>>)
    /\ (pc = "returned" /\ ~Structural) =>
          /\ result.code = 500
          /\ result.data_none
          /\ result.errors = <<>>
          /\ context_errors = <<>>

\* C1 witness: a structural call with warnings only succeeds.
C1_Witness ==
    /\ Structural
    /\ result.code = 200
    /\ context_warnings # <<>>
    /\ context_errors = <<>>

\* C2: a decoder run on a body of at least its declared minimum length
\* never indexes past the end of the body (never raises).
C2_NoOutOfBounds ==
    (dec_pc = "returned" /\ Len(dec_body) >= get_parser(dec_type).expected_min_length)
        => ~dec_out.raised

\* C3: when the selected decoder raises, parse() still returns the
\* structural result: exactly one decoder-failure error, recorded last,
\* body_data = None, the envelope fields kept, status 500.
C3_DecoderFailureCaught ==
    (HasBody /\ FrameBody # <<>>
        /\ ParseBody(get_parser(Data[6]), FrameBody).raised)
    => /\ result.msg # <<"parse_exception">>
       /\ Count(context_errors, "body_parse_failed") = 1
       /\ context_errors[Len(context_errors)] = "body_parse_failed"
       /\ result.body_data = <<NoneValue>>
       /\ EnvelopePresent
       /\ result.body_hex = <<HexUpper(FrameBody)>>
       /\ result.code = 500
       /\ result.errors = <<context_errors>>

\* C3 witness: a call in which the decoder raised.
C3_Witness ==
    /\ HasBody
    /\ FrameBody # <<>>
    /\ ParseBody(get_parser(Data[6]), FrameBody).raised
    /\ result.body_data = <<NoneValue>>

\* The frame is well-formed apart from its body length: start marker,
\* consistent length byte, matching checksum.
WellFormedEnvelope ==
    /\ HasBody
    /\ Data[1] = 104
    /\ Len(Data) = Data[2] + 4
    /\ Int16Big(SubSeq(Data, Len(Data) - 1, Len(Data)))
         = calculate_crc16(SubSeq(Data, 3, Len(Data) - 2))

\* C4: a well-formed frame of a type with a registered decoder whose body
\* is shorter than the decoder's minimum gets exactly one body-too-short
\* error, an empty body-field record and status 500.
C4_ShortBodyRejected ==
    (WellFormedEnvelope /\ Data[6] \in ParserCodes
        /\ Len(FrameBody) < get_parser(Data[6]).expected_min_length)
    => /\ context_errors = <<"body_too_short">>
       /\ result.body_data = <<EmptyDict>>
       /\ result.code = 500

\* C5: for a frame of at least 8 bytes exactly one length-mismatch error
\* is recorded when its length differs from 1 + 1 + declared + 2 and none
\* when it is equal; the following envelope fields are extracted either
\* way.
C5_LengthMismatchOnce ==
    Structural =>
        /\ Count(context_errors, "length_mismatch")
             = (IF Len(Data) # 1 + 1 + Data[2] + 2 THEN 1 ELSE 0)
        /\ result.msg # <<"parse_exception">>
        /\ EnvelopePresent
        /\ result.sequence_number = <<Data[3] + 256 * Data[4]>>
        /\ result.frame_type = <<Hex02(Data[6])>>

\* C5 witness: a frame longer than declared, parsed through to its body.
C5_Witness ==
    /\ Structural
    /\ Len(Data) > 1 + 1 + Data[2] + 2
    /\ Count(context_errors, "length_mismatch") = 1
    /\ result.body_data # <<>>

\* C6: a frame whose type code has neither a name nor a decoder gets one
\* unknown-type warning, no error for it, the name "unknown", and the
\* default decoder's output with the raw body as hex.
C6_UnknownTypeDefaultOutput ==
    (HasBody /\ Data[6] \notin FRAME_TYPES /\ Data[6] \notin ParserCodes)
    => /\ Count(context_warnings, "unknown_frame_type") = 1
       /\ Count(context_errors, "unknown_frame_type") = 0
       /\ result.frame_type_name = <<"unknown">>
       /\ result.body_data # <<>>
       /\ result.body_data[1].raw = <<HexUpper(FrameBody)>>

\* The frame of the call with its checksum bytes replaced by the checksum
\* of the bytes from the sequence number to the end of the body.
DataWithGoodCrc ==
    LET good == calculate_crc16(SubSeq(Data, 3, 2 + Data[2]))
    IN  [Data EXCEPT ![3 + Data[2]] = good \div 256, ![4 + Data[2]] = good % 256]

\* C7: a checksum mismatch adds exactly one warning and no error; apart
\* from the checksum fields and that warning the call ends as the call on
\* the same frame with a matching checksum does: same errors, same
\* status, same envelope fields, same decoded body.
C7_CrcMismatchIsWarning ==
    (CrcVerified /\ result.crc16_valid = <<FALSE>>)
    => LET p == parse(HexUpper(DataWithGoodCrc))
       IN  /\ Count(context_warnings, "crc_mismatch") = 1
           /\ Count(context_errors, "crc_mismatch") = 0
           /\ context_errors = p.errors
           /\ SelectSeq(context_warnings, LAMBDA w : w # "crc_mismatch") = p.warnings
           /\ Count(p.warnings, "crc_mismatch") = 0
           /\ result.code = p.result.code
           /\ result.body_data = p.result.body_data
           /\ EnvelopePresent
           /\ result.body_hex = p.result.body_hex
           /\ result.frame_type = p.result.frame_type
           /\ (context_errors = <<>> => result.code = 200)

\* C7 witness: a frame whose only anomaly is the checksum: one warning,
\* decoded body, status 200.
C7_Witness ==
    /\ CrcVerified
    /\ result.crc16_valid = <<FALSE>>
    /\ context_warnings = <<"crc_mismatch">>
    /\ result.body_data # <<>>
    /\ ~result.body_data[1].none
    /\ result.code = 200

\* C8 (as stated): whenever the checksum is verified, the received value
\* is formed from the last two bytes of the frame.
C8_ReceivedIsTrailingBytes ==
    CrcVerified =>
        result.crc16_received
          = <<Hex04(Int16Big(SubSeq(Data, Len(Data) - 1, Len(Data))))>>

\* C8 (amended): whenever the checksum is verified, the received value is
\* formed, high byte first, from the two bytes that follow the declared
\* body (indices 2 + declared and 3 + declared); these are the last two
\* bytes of the frame when the frame length matches the length byte.
C8_ReceivedFollowsBody ==
    CrcVerified =>
        /\ result.crc16_received
             = <<Hex04(256 * Data[3 + Data[2]] + Data[4 + Data[2]])>>
        /\ (Len(Data) = 1 + 1 + Data[2] + 2 =>
              result.crc16_received
                = <<Hex04(Int16Big(SubSeq(Data, Len(Data) - 1, Len(Data))))>>)

\* C8 witness: a verified checksum on a frame longer than declared, whose
\* last two bytes are not the bytes that were read.
C8_Witness ==
    /\ CrcVerified
    /\ Len(Data) > Data[2] + 4
    /\ result.crc16_received # <<>>
    /\ result.crc16_received
         # <<Hex04(Int16Big(SubSeq(Data, Len(Data) - 1, Len(Data))))>>

\* C9: whenever the checksum is verified, the computed value is the CRC of
\* exactly the bytes from the sequence number (index 2) to the end of the
\* body (index 6 + declared - 4, excluded).
C9_CrcCoversSequenceToBody ==
    CrcVerified =>
        /\ result.crc16_calculated
             = <<Hex04(calculate_crc16(SubSeq(Data, 3, 2 + Data[2])))>>
        /\ SubSeq(Data, 3, 2 + Data[2]) = SubSeq(Data, 3, 6) \o FrameBody
        /\ Len(FrameBody) = Data[2] - 4

\* C9 witness: a verified, matching checksum over a non-empty body.
C9_Witness ==
    /\ CrcVerified
    /\ FrameBody # <<>>
    /\ result.crc16_valid = <<TRUE>>

\* The frame ends before the declared end of the body.
BodyTruncated == HasBody /\ Len(Data) - 6 < Data[2] - 4

\* C10: when the frame holds fewer body bytes than declared, one error is
\* recorded, the body is the bytes from index 6 to the end of the frame,
\* parsing goes on to the checksum step, and the decoder selected for the
\* frame type is run on that truncated body.
C10_TruncatedBodyDecoded ==
    BodyTruncated =>
        LET truncated == SubSeq(Data, 7, Len(Data))
            d == ParseBody(get_parser(Data[6]), truncated)
        IN  /\ Count(context_errors, "body_incomplete") = 1
            /\ result.body_length = <<Len(truncated)>>
            /\ result.body_hex = <<HexUpper(truncated)>>
            /\ result.crc16_valid # <<>>
            /\ result.body_data = <<IF d.raised THEN NoneValue ELSE d.data>>

\* C10 witness: a truncated login body on which the decoder was run.
C10_Witness ==
    /\ BodyTruncated
    /\ Data[6] = 1
    /\ result.body_data = <<EmptyDict>>
    /\ Count(context_errors, "body_incomplete") = 1

\* The frame of the call with the start marker replaced by the sentinel
\* 0x68, and what parse() returns for it.
DataWithGoodStart == [Data EXCEPT ![1] = 104]

ParsedWithGoodStart == parse(HexUpper(DataWithGoodStart))

\* C11: a frame whose first byte is not 0x68 records the start-marker
\* error first and is parsed on: every other envelope field, the body, the
\* checksum fields, the decoder output, the warnings and the remaining
\* errors are those of the same frame with the marker 0x68.
C11_WrongStartContinues ==
    (Structural /\ Data[1] # 104) =>
        LET good == ParsedWithGoodStart
        IN  /\ context_errors = <<"start_flag_error">> \o good.errors
            /\ context_warnings = good.warnings
            /\ result.code = 500
            /\ result.start_flag = <<Hex02(Data[1])>>
            /\ [result EXCEPT !.start_flag = <<>>, !.code = 0, !.msg = <<>>,
                              !.errors = <<>>]
               = [good.result EXCEPT !.start_flag = <<>>, !.code = 0, !.msg = <<>>,
                                   !.errors = <<>>]

\* C11 witness: a frame with a wrong start marker and an otherwise
\* well-formed envelope whose body was decoded and whose checksum matched.
C11_Witness ==
    /\ Structural
    /\ Data[1] # 104
    /\ context_errors = <<"start_flag_error">>
    /\ result.crc16_valid = <<TRUE>>
    /\ result.body_data # <<>>
    /\ result.body_data # <<NoneValue>>

\* C12: a frame of fewer than 8 bytes is rejected with status 500 before
\* the envelope parser runs: the result has no envelope field, no body, no
\* checksum field and no decoder output, and nothing is recorded.
C12_ShortFrameRejected ==
    (/\ pc = "returned"
     /\ Len(CleanHex(hex_str)) % 2 = 0
     /\ FromHex(CleanHex(hex_str)).ok
     /\ Len(Data) < 8) =>
        /\ result = error_response("frame_too_short")
        /\ ~EnvelopePresent
        /\ result.body_hex = <<>> /\ result.body_data = <<>>
        /\ result.crc16_received = <<>> /\ result.crc16_valid = <<>>
        /\ context_errors = <<>> /\ context_warnings = <<>>

\* C12 witness: a rejected frame of 7 bytes.
C12_Witness ==
    /\ pc = "returned"
    /\ FromHex(CleanHex(hex_str)).ok
    /\ Len(CleanHex(hex_str)) = 14
    /\ Len(Data) = 7
    /\ result.code = 500

\* The count-prefixed offline-card decoders: sync 0x44, delete 0x46, query
\* 0x48.
CountedCodes == {68, 70, 72}

\* The count byte of a count-prefixed body declares more records than the
\* body holds.
CountExceedsBody(code, body) ==
    /\ Len(body) >= 8
    /\ Len(body) < 8 + body[8] * get_parser(code).record_size

\* C13: in a well-formed frame of a count-prefixed offline-card decoder, a
\* record count that exceeds the bytes available gives a warning and no
\* error, and the status stays 200.
C13_CountMismatchIsWarning ==
    (WellFormedEnvelope /\ Data[6] \in CountedCodes
        /\ CountExceedsBody(Data[6], FrameBody))
    => /\ context_warnings # <<>>
       /\ context_errors = <<>>
       /\ result.code = 200

\* C14: a heartbeat frame (type 0x03) with a 7-byte body, a consistent
\* length byte and a matching checksum returns code 200 without errors and
\* warnings, and its pile_code is the two upper-case hex digits of each of
\* the 7 body bytes, in order.
C14_HeartbeatDecodes ==
    (WellFormedEnvelope /\ Data[6] = 3 /\ Data[2] = 11) =>
        /\ result.code = 200
        /\ result.errors = <<>> /\ result.warnings = <<>>
        /\ context_errors = <<>> /\ context_warnings = <<>>
        /\ result.body_data # <<>>
        /\ Len(result.body_data[1].fields) = 1
        /\ LET pile_code == result.body_data[1].fields[1]
           IN  /\ Len(pile_code) = 14
               /\ \A k \in 1..7 :
                     /\ pile_code[2 * k - 1] = HexDigits[(Data[6 + k] \div 16) + 1]
                     /\ pile_code[2 * k] = HexDigits[(Data[6 + k] % 16) + 1]

\* C14 witness: a well-formed heartbeat frame whose 7 body bytes differ
\* from one another was decoded.
C14_Witness ==
    /\ WellFormedEnvelope
    /\ Data[6] = 3
    /\ Data[2] = 11
    /\ \A i, j \in 7..13 : i # j => Data[i] # Data[j]
    /\ result.code = 200

\* C15: when the calls on one parser object are made one after another,
\* the result of every call that has returned holds, now and after every
\* later call, exactly the errors and warnings of its own frame and the
\* status that follows from them.
C15_DiagnosticsPerCall ==
    \A c \in 1..Len(calls) :
        calls[c].pc = "returned" => OwnDiagnostics(c, parse(calls[c].hex))

\* C15 witness: a call that recorded errors has returned, and so has a
\* later call on the same object that recorded none.
C15_Witness ==
    \E c, d \in 1..Len(calls) :
        /\ c < d
        /\ calls[c].pc = "returned" /\ calls[d].pc = "returned"
        /\ Len(ReturnedErrors(c)) = 2
        /\ calls[d].code = 200

\* C16: when calls on one parser object interleave, the result of every
\* call that has returned holds exactly the errors and warnings of its own
\* frame, and its status is the one its own frame gives.
C16_DiagnosticsPerThread ==
    \A c \in InProgress \cup (1..Len(calls)) :
        LET alone == parse(calls[c].hex)
        IN  c \notin InProgress =>
                /\ calls[c].code = alone.result.code
                /\ ReturnedErrors(c) = alone.errors
                /\ ReturnedWarnings(c) = alone.warnings

\* C17: whatever operations have been called, every frame type code is
\* dispatched to the decoder it was dispatched to when the registry was
\* built.
C17_RegistryImmutable ==
    /\ \A code \in 0..255 : Registered(parsers, code) = get_parser(code)
    /\ looked_up.parser = get_parser(looked_up.code)

\* The plain spelling of a hex string: its characters without the
\* whitespace, hex digits in upper case.
PlainHex(s) ==
    LET digits == SelectSeq(s, LAMBDA ch : ch \notin Whitespace)
    IN  [i \in 1..Len(digits) |->
            IF HexVal(digits[i]) >= 0 THEN HexDigits[HexVal(digits[i]) + 1]
            ELSE digits[i]]

\* C18: the call returns what it returns for the plain spelling of its
\* argument: whitespace between the characters and the case of the hex
\* digits make no difference to the result and the diagnostics.
C18_SpellingIrrelevant ==
    pc = "returned" =>
        LET plain == parse(PlainHex(hex_str))
        IN  /\ result = plain.result
            /\ context_errors = plain.errors
            /\ context_warnings = plain.warnings

\* C19: an argument with an odd number of characters after the whitespace
\* is removed is rejected with status 500 before the envelope parser runs:
\* the result has no envelope field, no body, no checksum field, and no
\* diagnostic is recorded.
C19_OddLengthRejected ==
    (pc = "returned" /\ Len(PlainHex(hex_str)) % 2 = 1) =>
        /\ result.code = 500
        /\ result.data_none
        /\ [result EXCEPT !.msg = <<>>] = [error_response("") EXCEPT !.msg = <<>>]
        /\ ~EnvelopePresent
        /\ context_errors = <<>> /\ context_warnings = <<>>

\* C19 witness: an argument of 29 hex digits in two lines, which still
\* holds the carriage return when its length is tested, was rejected.
C19_Witness ==
    /\ pc = "returned"
    /\ Len(PlainHex(hex_str)) = 29
    /\ Len(CleanHex(hex_str)) = 30
    /\ result.code = 500

\* The byte is a printable 7-bit character.
Printable(b) == 32 <= b /\ b < 127

\* C20: when a byte of the field before its zero padding is not printable,
\* ascii_to_str records a warning and still returns the text of the field
\* without the padding; a field of printable bytes followed by zero bytes
\* records no warning.
C20_TextBestEffort ==
    ascii_pc = "returned" =>
        LET text == RStripZero(ascii_bytes)
        IN  /\ (\E i \in 1..Len(text) : ~Printable(text[i])) =>
                  /\ ascii_out.warnings # <<>>
                  /\ ascii_out.value.kind = "text"
                  /\ (\A i \in 1..Len(text) : text[i] < 128) =>
                        ascii_out.value.chars = text
            /\ (\A i \in 1..Len(text) : Printable(text[i])) =>
                  /\ ascii_out.warnings = <<>>
                  /\ ascii_out.value.kind = "text"
                  /\ ascii_out.value.chars = text

----------------------------------------------------------------------------
(* The timestamp and fault-bit helpers.                                     *)

\* The text "2024-03-15 14:30:00.500".
ExampleTimeText ==
    << "2", "0", "2", "4", "-", "0", "3", "-", "1", "5", " ",
       "1", "4", ":", "3", "0", ":", "0", "0", ".", "5", "0", "0" >>

\* The text "YYYY-MM-DD HH:MM:SS.mmm" of the given components.
TimeText(year, month, day, hour, minute, seconds, millis) ==
    Dec(year, 4) \o <<"-">> \o Dec(month, 2) \o <<"-">> \o Dec(day, 2)
    \o <<" ">> \o Dec(hour, 2) \o <<":">> \o Dec(minute, 2) \o <<":">>
    \o Dec(seconds, 2) \o <<".">> \o Dec(millis, 3)

\* The seven bytes with the reserved high bits of bytes 2..6 cleared.
ReservedCleared(b) ==
    << b[1], b[2], BitAnd(b[3], 63), BitAnd(b[4], 31), BitAnd(b[5], 31),
       BitAnd(b[6], 15), BitAnd(b[7], 127) >>

\* C21: parse_cp56time2a of seven bytes b0..b6 gives year 2000 + (b6 & 0x7F),
\* month b5 & 0x0F, day b4 & 0x1F, hour b3 & 0x1F, minute b2 & 0x3F and
\* seconds and milliseconds b0 + 256*b1 div and mod 1000; the text is the one
\* of the same bytes with the reserved high bits cleared; and the bytes
\* packing 2024-03-15 14:30:00.500 give "2024-03-15 14:30:00.500".
C21_TimestampDecoding ==
    (time_pc = "returned" /\ Len(time_bytes) = 7) =>
        LET b  == time_bytes
            ms == b[1] + 256 * b[2]
        IN  /\ time_out = TimeText(2000 + BitAnd(b[7], 127), BitAnd(b[6], 15),
                                   BitAnd(b[5], 31), BitAnd(b[4], 31),
                                   BitAnd(b[3], 63), ms \div 1000, ms % 1000)
            /\ time_out = parse_cp56time2a(ReservedCleared(b))
            /\ ReservedCleared(b) = ExampleTimeBytes => time_out = ExampleTimeText

\* The example's bytes with the reserved high bits set are decoded to the
\* example's text.
C21_Witness ==
    /\ time_pc = "returned"
    /\ time_bytes = <<244, 1, 30 + 64, 14 + 32, 15 + 128, 3 + 16, 24 + 128>>
    /\ time_out = ExampleTimeText

\* Value of the decimal digits s[from..to] of a text.
RECURSIVE DecimalValue(_, _, _)
DecimalValue(s, from, to) ==
    IF to < from THEN 0
    ELSE 10 * DecimalValue(s, from, to - 1) + HexVal(s[to])

\* C29: for every 7-byte input the text returned by parse_cp56time2a has
\* month 1..12, day 1..31, hour 0..23, minute 0..59, seconds 0..59 and
\* milliseconds 0..999.
C29_TimestampInRange ==
    (time_pc = "returned" /\ Len(time_bytes) = 7) =>
        /\ Len(time_out) = 23
        /\ DecimalValue(time_out, 6, 7) \in 1..12
        /\ DecimalValue(time_out, 9, 10) \in 1..31
        /\ DecimalValue(time_out, 12, 13) \in 0..23
        /\ DecimalValue(time_out, 15, 16) \in 0..59
        /\ DecimalValue(time_out, 18, 19) \in 0..59
        /\ DecimalValue(time_out, 21, 23) \in 0..999

\* The declared bits (0-based) set in a fault value.
DeclaredBitsSet(n) ==
    { i \in 0..(Len(fault_names) - 1) : BitAnd(n, 2 ^ i) # 0 }

\* The position of a label in the declaration, 0 for any other value.
LabelIndex(name) ==
    IF \E i \in 1..Len(fault_names) : fault_names[i] = name
    THEN CHOOSE i \in 1..Len(fault_names) : fault_names[i] = name
    ELSE 0

\* C22: parse_fault_bits returns one label for each declared bit that is
\* set and no other label, in declaration order, and the single label
\* "no fault" when the value is zero.
C22_FaultLabels ==
    fault_pc = "returned" =>
        LET bits == DeclaredBitsSet(fault)
        IN  /\ fault = 0 => fault_out = <<"no_fault">>
            /\ bits # {} =>
                  /\ Len(fault_out) = Cardinality(bits)
                  /\ \A i \in bits :
                        \E k \in 1..Len(fault_out) : fault_out[k] = fault_names[i + 1]
                  /\ \A k \in 1..Len(fault_out) :
                        LabelIndex(fault_out[k]) - 1 \in bits
                  /\ \A j, k \in 1..Len(fault_out) :
                        j < k => LabelIndex(fault_out[j]) < LabelIndex(fault_out[k])

\* Bits 0 and 12 set: the first and the last label, in that order.
C22_Witness ==
    /\ fault_pc = "returned"
    /\ fault = 4097
    /\ fault_out = <<"emergency_stop", "door_open">>

\* C28: parse_fault_bits returns the "no fault" label only for the value
\* zero; every non-zero value gives at least one fault label.
C28_NoFaultOnlyForZero ==
    (fault_pc = "returned" /\ fault # 0) =>
        /\ fault_out # <<"no_fault">>
        /\ \E k \in 1..Len(fault_out) : LabelIndex(fault_out[k]) > 0

----------------------------------------------------------------------------
(* The body decoders and the registry.                                      *)

\* The read <<kind, start, width>> finds all of its bytes in the body.
ReadsFullWidth(body, f) ==
    IF f[1] = "rest" THEN TRUE
    ELSE IF f[1] = "idx" THEN InRange(body, f[2])
    ELSE Len(Slice(body, f[2], f[2] + f[3])) = f[3]

\* C26: a dedicated decoder run on a body of exactly its declared minimum
\* length reads every field of its fixed layout from a slice of the field's
\* full width.
C26_MinimumCoversLayout ==
    (/\ dec_pc = "returned"
     /\ Len(dec_body) = get_parser(dec_type).expected_min_length)
    => \A k \in 1..Len(get_parser(dec_type).fields) :
           ReadsFullWidth(dec_body, get_parser(dec_type).fields[k])

\* C23: a count-prefixed offline-card decoder (0x44 with 16-byte records,
\* 0x46 and 0x48 with 8-byte records) that returns a result decodes
\* min(declared count, floor((len(body) - 8) / record size)) records, and
\* every decoded record lies inside the body.
C23_RecordCountClamped ==
    (/\ dec_pc = "returned"
     /\ dec_type \in CountedCodes
     /\ Len(dec_body) >= 8)
    => LET size  == IF dec_type = 68 THEN 16 ELSE 8
           n     == Len(dec_out.data.records)
       IN  /\ ~dec_out.raised
           /\ dec_body[8] <= (Len(dec_body) - 8) \div size => n = dec_body[8]
           /\ dec_body[8] > (Len(dec_body) - 8) \div size
                 => n = (Len(dec_body) - 8) \div size
           /\ 8 + n * size <= Len(dec_body)
           /\ \A k \in 1..n : \A f \in 1..Len(get_parser(dec_type).record) :
                 LET r == get_parser(dec_type).record[f]
                 IN  8 + (k - 1) * size + r[2] + r[3] <= Len(dec_body)

\* A body that declares more records than it holds, with at least one
\* whole record decoded.
C23_Witness ==
    /\ dec_pc = "returned"
    /\ dec_type = 68
    /\ CountExceedsBody(dec_type, dec_body)
    /\ Len(dec_out.data.records) = 2

----------------------------------------------------------------------------
(* The order of the steps of _parse_structure.                              *)

\* The errors of the three halting branches that follow the length check.
HaltErrors == {"no_sequence_number", "no_encrypt_flag", "no_frame_type"}

\* C24: no call records "too short to read the sequence number", "... the
\* encryption flag" or "... the frame type"; a frame that reaches
\* _parse_structure has at least 8 bytes, and its result holds the sequence
\* number, the encryption flag and the frame type.
C24_HaltBranchesUnreachable ==
    pc = "returned" =>
        /\ \A i \in 1..Len(context_errors) : context_errors[i] \notin HaltErrors
        /\ result.start_flag # <<>> =>
              /\ Len(Data) >= 8
              /\ result.sequence_number = <<Data[3] + 256 * Data[4]>>
              /\ result.encrypt_flag = <<Hex02(Data[5])>>
              /\ result.frame_type = <<Hex02(Data[6])>>
        /\ (Len(CleanHex(hex_str)) % 2 = 0 /\ FromHex(CleanHex(hex_str)).ok
               /\ Len(Data) < 8)
              => result.msg = <<"frame_too_short">> /\ result.start_flag = <<>>

\* The shortest frame that reaches _parse_structure.
C24_Witness ==
    /\ Structural
    /\ Len(Data) = 8
    /\ result.frame_type = <<Hex02(Data[6])>>
    /\ result.sequence_number # <<>>

\* Some entry of the list is e.
Recorded(errors, e) == \E i \in 1..Len(errors) : errors[i] = e

\* Some entry a of the list stands before some entry b.
RecordedBefore(errors, a, b) ==
    \E i, j \in 1..Len(errors) : i < j /\ errors[i] = a /\ errors[j] = b

\* C25: when "cannot read the complete body" or "cannot read the checksum"
\* is recorded, the length-mismatch error was recorded before it in the same
\* call; when the truncated-body error is recorded, the checksum error is
\* recorded too and crc16_valid is False.
C25_TruncationImpliesMismatch ==
    pc = "returned" =>
        /\ Recorded(context_errors, "body_incomplete")
              => /\ RecordedBefore(context_errors, "length_mismatch", "body_incomplete")
                 /\ Recorded(context_errors, "crc_unreadable")
                 /\ result.crc16_valid = <<FALSE>>
                 /\ result.crc16_received = <<>>
        /\ Recorded(context_errors, "crc_unreadable")
              => /\ RecordedBefore(context_errors, "length_mismatch", "crc_unreadable")
                 /\ result.crc16_valid = <<FALSE>>

\* A truncated frame: the three errors in the order of the steps.
C25_Witness ==
    /\ Structural
    /\ Len(Data) < BodyEnd(Data)
    /\ RecordedBefore(context_errors, "length_mismatch", "body_incomplete")
    /\ RecordedBefore(context_errors, "body_incomplete", "crc_unreadable")

\* body_data is the dictionary of DefaultParser: the raw hex and the note.
DecodedByDefault ==
    /\ result.body_data # <<>>
    /\ result.body_data[1].note
    /\ result.body_data[1].raw = <<HexUpper(FrameBody)>>

\* C27: a frame with a non-empty body is decoded by the default raw-hex
\* decoder exactly when the unknown-frame-type warning is recorded for it
\* (the name table and the decoder table hold the same codes).
C27_TablesAgree ==
    (HasBody /\ FrameBody # <<>>) =>
        (DecodedByDefault <=> Recorded(context_warnings, "unknown_frame_type"))

\* The step of _parse_structure that records an error: 1 start marker,
\* 2 length, 6 body bounds, 7 checksum, 8 the body decoder.
ErrorStep(e) ==
    CASE e = "start_flag_error" -> 1
      [] e = "length_mismatch" -> 2
      [] e = "data_length_field_error" -> 6
      [] e = "body_incomplete" -> 6
      [] e = "crc_unreadable" -> 7
      [] OTHER -> 8

\* C30: the errors of a call stand in the order of the steps: the
\* start-marker error before the length mismatch, before the truncated-body
\* error, before the checksum-unreadable error, before any error of the body
\* decoder, each of the first four at most once; the failure message is
\* built from the first three entries.
C30_ErrorsInStepOrder ==
    (pc = "returned" /\ context_errors # <<>>) =>
        /\ \A i, j \in 1..Len(context_errors) :
              i < j =>
                /\ ErrorStep(context_errors[i]) <= ErrorStep(context_errors[j])
                /\ ErrorStep(context_errors[i]) < 8
                      => ErrorStep(context_errors[i]) < ErrorStep(context_errors[j])
        /\ result.code = 500
        /\ Len(result.msg) = 1 + Min(3, Len(context_errors))
        /\ result.msg[1] = "parse_failed"
        /\ \A k \in 2..Len(result.msg) : result.msg[k] = context_errors[k - 1]

\* A call with all five steps recording an error: the message names the
\* first three.
C30_Witness ==
    /\ pc = "returned"
    /\ Len(context_errors) = 5
    /\ SubSeq(context_errors, 1, 4) =
          <<"start_flag_error", "length_mismatch", "body_incomplete", "crc_unreadable">>
    /\ ErrorStep(context_errors[5]) = 8
    /\ result.msg = <<"parse_failed", "start_flag_error", "length_mismatch",
                      "body_incomplete">>

====
